---- MODULE Spec2Model ----
(***************************************************************************)
(* Model of backend/services/file_service.py (FileService): the on-disk    *)
(* storage of template, page and material images.  File names and path     *)
(* strings are TLA+ strings; a Path object is the sequence of its parts    *)
(* counted from "/"; the file system is a set of directories and a         *)
(* function from (resolved) file paths to contents.                        *)
(***************************************************************************)
EXTENDS Integers, Sequences, FiniteSets, TLC

VARIABLES files, dirs, clock, last, prev, mtime, procs, projects

vars == <<files, dirs, clock, last, prev, mtime, procs, projects>>

(***************************************************************************)
(* Bounds of the model                                                     *)
(***************************************************************************)
MaxFiles == 3
MaxClock == 2
MaxVersion == 1
MaxMaterials == 2
MaxWritten == 2

(***************************************************************************)
(* Strings                                                                 *)
(***************************************************************************)
None == "<None>"

CharAt(s, i) == SubSeq(s, i, i)

StartsWith(s, pre) == Len(pre) <= Len(s) /\ SubSeq(s, 1, Len(pre)) = pre

RECURSIVE FindFrom(_, _, _)
FindFrom(s, c, i) ==
    IF i > Len(s) THEN 0 ELSE IF CharAt(s, i) = c THEN i ELSE FindFrom(s, c, i + 1)

\* str.find(c), 1-based; 0 when c does not occur
Find(s, c) == FindFrom(s, c, 1)

RECURSIVE RFindFrom(_, _, _)
RFindFrom(s, c, i) ==
    IF i = 0 THEN 0 ELSE IF CharAt(s, i) = c THEN i ELSE RFindFrom(s, c, i - 1)

\* str.rfind(c), 1-based; 0 when c does not occur
RFind(s, c) == RFindFrom(s, c, Len(s))

\* the characters of s
Chars(s) == {CharAt(s, i) : i \in 1..Len(s)}

RECURSIVE MapChars(_, _, _)
\* apply the character table (from[i] -> to[i]) to every character of s
MapChars(s, from, to) ==
    IF s = "" THEN ""
    ELSE LET c == CharAt(s, 1)
             i == Find(from, c)
         IN (IF i = 0 THEN c ELSE CharAt(to, i)) \o MapChars(Tail(s), from, to)

\* str.replace('\\', '/')
ReplaceBackslash(s) == MapChars(s, "\\", "/")

\* the lower-case letter of every upper-case letter
LowerTable ==
    [c \in Chars("ABCDEFGHIJKLMNOPQRSTUVWXYZ") |->
        CharAt("abcdefghijklmnopqrstuvwxyz", Find("ABCDEFGHIJKLMNOPQRSTUVWXYZ", c))]

RECURSIVE Lower(_)
\* str.lower()
Lower(s) ==
    IF s = "" THEN ""
    ELSE (IF CharAt(s, 1) \in DOMAIN LowerTable THEN LowerTable[CharAt(s, 1)]
          ELSE CharAt(s, 1)) \o Lower(Tail(s))

RECURSIVE Split(_, _)
\* str.split(sep) for a one-character separator
Split(s, sep) ==
    LET i == Find(s, sep)
    IN IF i = 0 THEN <<s>>
       ELSE <<SubSeq(s, 1, i - 1)>> \o Split(SubSeq(s, i + 1, Len(s)), sep)

RECURSIVE Join(_, _)
\* sep.join(parts)
Join(parts, sep) ==
    IF parts = <<>> THEN ""
    ELSE IF Len(parts) = 1 THEN parts[1]
    ELSE parts[1] \o sep \o Join(Tail(parts), sep)

RECURSIVE IntToStr(_)
\* str(n) of a non-negative integer
IntToStr(n) ==
    IF n < 10 THEN CharAt("0123456789", n + 1)
    ELSE IntToStr(n \div 10) \o CharAt("0123456789", (n % 10) + 1)

RECURSIVE FilterChars(_, _)
\* keep the characters of s that are in the set allowed
FilterChars(s, allowed) ==
    IF s = "" THEN ""
    ELSE (IF CharAt(s, 1) \in allowed THEN CharAt(s, 1) ELSE "")
         \o FilterChars(Tail(s), allowed)

RECURSIVE LStrip(_, _)
LStrip(s, chars) ==
    IF s # "" /\ CharAt(s, 1) \in chars THEN LStrip(Tail(s), chars) ELSE s

RECURSIVE RStrip(_, _)
RStrip(s, chars) ==
    IF s # "" /\ CharAt(s, Len(s)) \in chars
    THEN RStrip(SubSeq(s, 1, Len(s) - 1), chars) ELSE s

\* str.strip(chars)
Strip(s, chars) == LStrip(RStrip(s, chars), chars)

\* the non-empty pieces of s between runs of blanks: str.split()
Words(s) == SelectSeq(Split(s, " "), LAMBDA w : w # "")

\* the characters werkzeug keeps: [A-Za-z0-9_.-]
FilenameChars ==
    Chars("ABCDEFGHIJKLMNOPQRSTUVWXYZabcdefghijklmnopqrstuvwxyz0123456789_.-")

\* werkzeug.utils.secure_filename on ASCII input: path separators become
\* blanks, runs of blanks become one "_", every character outside
\* [A-Za-z0-9_.-] is dropped, leading and trailing "." and "_" are stripped
SecureFilename(s) ==
    Strip(FilterChars(Join(Words(MapChars(s, "/", " ")), "_"), FilenameChars), {".", "_"})

(***************************************************************************)
(* pathlib                                                                 *)
(***************************************************************************)
\* the parts a path string contributes: empty and "." components vanish
Parts(s) == SelectSeq(Split(s, "/"), LAMBDA w : w # "" /\ w # ".")

\* Path.__truediv__: an absolute right operand replaces the left one
PathJoin(base, s) == IF StartsWith(s, "/") THEN Parts(s) ELSE base \o Parts(s)

\* Path.parent
Parent(p) == IF p = <<>> THEN <<>> ELSE SubSeq(p, 1, Len(p) - 1)

\* Path.name
Name(p) == IF p = <<>> THEN "" ELSE p[Len(p)]

\* PurePath.suffix: the last "." of the name and what follows it, unless the
\* dot is the first or the last character
Suffix(name) ==
    LET i == RFind(name, ".")
    IN IF 1 < i /\ i < Len(name) THEN SubSeq(name, i, Len(name)) ELSE ""

\* PurePath.stem
Stem(name) ==
    LET i == RFind(name, ".")
    IN IF 1 < i /\ i < Len(name) THEN SubSeq(name, 1, i - 1) ELSE name

\* Path.relative_to(other) is lexical: other must be a prefix of the parts
IsRelativeTo(p, base) == Len(base) <= Len(p) /\ SubSeq(p, 1, Len(base)) = base

\* Path.relative_to(base).as_posix()
RelativeTo(p, base) ==
    IF Len(p) = Len(base) THEN "." ELSE Join(SubSeq(p, Len(base) + 1, Len(p)), "/")

RECURSIVE Norm(_)
\* what the operating system resolves a path to (no symbolic links): ".."
\* steps to the parent, and the parent of "/" is "/"
Norm(p) ==
    IF p = <<>> THEN <<>>
    ELSE LET q == Norm(SubSeq(p, 1, Len(p) - 1))
         IN IF p[Len(p)] = ".." THEN Parent(q) ELSE Append(q, p[Len(p)])

(***************************************************************************)
(* The file system: st.dirs is the set of directories, st.files maps the   *)
(* path of every regular file to its content; both hold resolved paths.    *)
(***************************************************************************)
\* FileService.upload_folder, created by __init__
UploadFolder == <<"srv", "uploads">>

Prefixes(p) == {SubSeq(p, 1, k) : k \in 0..Len(p)}

Storage(f, d) == [files |-> f, dirs |-> d]

\* every component on the way to p is an existing directory
Resolvable(st, p) == \A k \in 0..(Len(p) - 1) : Norm(SubSeq(p, 1, k)) \in st.dirs

\* Path.is_file()
IsFile(st, p) == Resolvable(st, p) /\ Norm(p) \in DOMAIN st.files

\* Path.is_dir()
IsDir(st, p) == Resolvable(st, p) /\ Norm(p) \in st.dirs

\* Path.exists()
PathExists(st, p) == IsFile(st, p) \/ IsDir(st, p)

\* resolved path q lies in the subtree of the resolved directory d
Under(q, d) == Len(d) <= Len(q) /\ SubSeq(q, 1, Len(d)) = d

\* the regular files directly inside the resolved directory d
FilesIn(st, d) == {q \in DOMAIN st.files : Parent(q) = d}

\* the function f without the arguments in S
Without(f, S) == [q \in (DOMAIN f) \ S |-> f[q]]

\* Path.mkdir(exist_ok=True, parents=True): fails only on a regular file
\* in the way
Mkdir(st, p) ==
    IF \E q \in Prefixes(p) : Norm(q) \in DOMAIN st.files
    THEN [st |-> st, path |-> p, err |-> "FileExistsError"]
    ELSE [st |-> Storage(st.files, st.dirs \cup {Norm(q) : q \in Prefixes(p)}),
          path |-> p, err |-> ""]

\* open(p, 'wb') and write: image.save(str(filepath)) / file.save(str(filepath))
WriteFile(st, p, content) ==
    IF p = <<>> \/ Norm(p) \in st.dirs
    THEN [st |-> st, err |-> "IsADirectoryError"]
    ELSE IF ~Resolvable(st, p)
    THEN [st |-> st, err |-> "FileNotFoundError"]
    ELSE [st |-> Storage((Norm(p) :> content) @@ st.files, st.dirs), err |-> ""]

\* Path.unlink() of an existing regular file
Unlink(st, p) == Storage(Without(st.files, {Norm(p)}), st.dirs)

\* shutil.rmtree(p) of an existing directory: everything below p goes, then
\* os.rmdir(p) removes p itself, which needs p to be still resolvable
RmTree(st, p) ==
    LET d     == Norm(p)
        below == Storage(Without(st.files, {q \in DOMAIN st.files : Under(q, d)}),
                         {q \in st.dirs : ~(Under(q, d) /\ q # d)})
    IN IF ~IsDir(st, p) THEN [st |-> st, err |-> "NotADirectoryError"]
       ELSE IF ~Resolvable(below, p) \/ d = <<>>
       THEN [st |-> below, err |-> "FileNotFoundError"]
       ELSE [st |-> Storage(below.files, below.dirs \ {d}), err |-> ""]

\* the value an operation hands back: the storage it leaves, what it
\* returns, and the exception it raised ("" for none)
Result(st, ret, err) == [files |-> st.files, dirs |-> st.dirs, ret |-> ret, err |-> err]

Raise(st, err) == Result(st, None, err)

(***************************************************************************)
(* PathLayout                                                              *)
(***************************************************************************)
_get_project_dir(st, project_id) == Mkdir(st, PathJoin(UploadFolder, project_id))

SubDirOf(r, name) == IF r.err # "" THEN r ELSE Mkdir(r.st, Append(r.path, name))

_get_template_dir(st, project_id) == SubDirOf(_get_project_dir(st, project_id), "template")

_get_pages_dir(st, project_id) == SubDirOf(_get_project_dir(st, project_id), "pages")

_get_materials_dir(st, project_id) == SubDirOf(_get_project_dir(st, project_id), "materials")

_get_global_materials_dir(st) == Mkdir(st, Append(UploadFolder, "materials"))

_get_materials_target_dir(st, target_project_id) ==
    IF target_project_id = None THEN _get_global_materials_dir(st)
    ELSE _get_materials_dir(st, target_project_id)

_get_user_templates_dir(st) == Mkdir(st, Append(UploadFolder, "user-templates"))

\* filepath.relative_to(self.upload_folder).as_posix(), after the write w of
\* filepath: ValueError when filepath does not start with the upload folder
ReturnRelative(w, filepath) ==
    IF w.err # "" THEN Raise(w.st, w.err)
    ELSE IF ~IsRelativeTo(filepath, UploadFolder) THEN Raise(w.st, "ValueError")
    ELSE Result(w.st, RelativeTo(filepath, UploadFolder), "")

\* FileService.file_exists
file_exists(st, relative_path) ==
    IsFile(st, PathJoin(UploadFolder, ReplaceBackslash(relative_path)))

(***************************************************************************)
(* AssetWriter.  An upload is a record [filename, content]; a decoded      *)
(* image is its content; now is int(time.time() * 1000).                   *)
(***************************************************************************)
NoVersion == 0 - 1

\* original_filename.rsplit('.', 1)[1].lower() if '.' in original_filename else 'png'
UploadExt(filename) ==
    LET original_filename == SecureFilename(filename)
        i == RFind(original_filename, ".")
    IN IF i # 0 THEN Lower(SubSeq(original_filename, i + 1, Len(original_filename)))
       ELSE "png"

\* secure_filename(str(template_key)) or 'template'
SafeKey(template_key) ==
    LET safe_key == SecureFilename(template_key)
    IN IF safe_key = "" THEN "template" ELSE safe_key

\* write content at dir / filename and return the path relative to the root
SaveInto(dir, filename, content) ==
    IF dir.err # "" THEN Raise(dir.st, dir.err)
    ELSE LET filepath == PathJoin(dir.path, filename)
         IN ReturnRelative(WriteFile(dir.st, filepath, content), filepath)

save_template_image(st, file, project_id) ==
    SaveInto(_get_template_dir(st, project_id),
             "template." \o UploadExt(file.filename), file.content)

save_template_image_with_key(st, file, project_id, template_key) ==
    SaveInto(_get_template_dir(st, project_id),
             "template_" \o SafeKey(template_key) \o "." \o UploadExt(file.filename),
             file.content)

save_template_variant_image(st, image, project_id, variant_key, image_format, template_key, with_timestamp, now) ==
    LET ext    == Lower(image_format)
        suffix == IF with_timestamp THEN "_" \o IntToStr(now) ELSE ""
        filename ==
            IF template_key # None /\ template_key # ""
            THEN "template_" \o SafeKey(template_key) \o "_" \o variant_key \o suffix \o "." \o ext
            ELSE "template_" \o variant_key \o suffix \o "." \o ext
    IN SaveInto(_get_template_dir(st, project_id), filename, image)

save_generated_image(st, image, project_id, page_id, image_format, version_number, now) ==
    LET ext == Lower(image_format)
        filename ==
            IF version_number # NoVersion
            THEN page_id \o "_v" \o IntToStr(version_number) \o "." \o ext
            ELSE page_id \o "_" \o IntToStr(now) \o "." \o ext
    IN SaveInto(_get_pages_dir(st, project_id), filename, image)

(***************************************************************************)
(* ThumbnailCache                                                          *)
(***************************************************************************)
\* int(image.height * (max_width / image.width)) for positive sizes: the
\* quotient cut off at the point.  (The product is a double in the code; on
\* the sizes used here it is cut off to the same integer.)
NewHeight(image, max_width) == (image.height * max_width) \div image.width

\* image.resize((max_width, new_height), LANCZOS): Pillow refuses a size
\* below 1 with ValueError.  An image is a record [width, height] here; the
\* result is [image, err].
resize_image_for_thumbnail(image, max_width) ==
    IF image.width > max_width
    THEN IF NewHeight(image, max_width) < 1
         THEN [image |-> None, err |-> "ValueError"]
         ELSE [image |-> [width |-> max_width, height |-> NewHeight(image, max_width)],
               err |-> ""]
    ELSE [image |-> image, err |-> ""]

\* as get_cached_image_path, but only the last digit of the version is used
get_cached_image_path_last_digit(project_id, page_id, version_number) ==
    project_id \o "/pages/" \o page_id \o "_v" \o IntToStr(version_number % 10) \o "_thumb.jpg"

get_cached_image_path(project_id, page_id, version_number) ==
    project_id \o "/pages/" \o page_id \o "_v" \o IntToStr(version_number) \o "_thumb.jpg"

\* the bytes the codec writes for the thumbnail of image: resized, converted
\* to RGB and encoded as JPEG
ThumbnailOf(image) == "thumb(" \o image \o ")"

\* the images on which the codec raises: resize_image_for_thumbnail,
\* convert_image_to_rgb, image.save or Image.open does not return
BrokenImages == {"X"}

save_cached_image(st, image, project_id, page_id, version_number) ==
    LET pages_dir     == _get_pages_dir(st, project_id)
        relative_path == get_cached_image_path(project_id, page_id, version_number)
        filename      == Name(Parts(relative_path))
        filepath      == PathJoin(pages_dir.path, filename)
        w             == WriteFile(pages_dir.st, filepath, ThumbnailOf(image))
    IN IF pages_dir.err # "" THEN Raise(pages_dir.st, pages_dir.err)
       ELSE IF image \in BrokenImages THEN Raise(pages_dir.st, "OSError")
       ELSE IF w.err # "" THEN Raise(w.st, w.err)
       ELSE Result(w.st, relative_path, "")

\* as save_material_image, but the name carries seconds, not milliseconds
save_material_image_seconds(st, image, project_id, image_format, now) ==
    SaveInto(_get_materials_target_dir(st, project_id),
             "material_" \o IntToStr(now \div 1000) \o "." \o Lower(image_format), image)

save_material_image(st, image, project_id, image_format, now) ==
    SaveInto(_get_materials_target_dir(st, project_id),
             "material_" \o IntToStr(now) \o "." \o Lower(image_format), image)

save_user_template(st, file, template_id) ==
    LET templates_dir == _get_user_templates_dir(st)
        template_dir  == IF templates_dir.err # "" THEN templates_dir
                         ELSE Mkdir(templates_dir.st, PathJoin(templates_dir.path, template_id))
    IN SaveInto(template_dir, "template." \o UploadExt(file.filename), file.content)

\* the bytes the codec writes for the WEBP thumbnail of a user template
WebpOf(image) == "webp(" \o image \o ")"

\* the body runs in try: ... except Exception: return None, so what was
\* created before the exception stays
save_user_template_thumbnail(st, template_id, original_path) ==
    LET original_full_path == PathJoin(UploadFolder, ReplaceBackslash(original_path))
        templates_dir  == _get_user_templates_dir(st)
        template_dir   == IF templates_dir.err # "" THEN templates_dir
                          ELSE Mkdir(templates_dir.st, PathJoin(templates_dir.path, template_id))
        thumb_filepath == PathJoin(template_dir.path, "template-thumb.webp")
        image          == st.files[Norm(original_full_path)]
        r == ReturnRelative(WriteFile(template_dir.st, thumb_filepath, WebpOf(image)),
                            thumb_filepath)
    IN IF ~PathExists(st, original_full_path) THEN Result(st, None, "")
       ELSE IF ~IsFile(st, original_full_path) THEN Result(st, None, "")
       ELSE IF image \in BrokenImages THEN Result(st, None, "")
       ELSE IF template_dir.err # "" THEN Result(template_dir.st, None, "")
       ELSE IF r.err # "" THEN Result(r, None, "")
       ELSE r

(***************************************************************************)
(* MaterialRelocator                                                       *)
(***************************************************************************)
\* as _generate_material_filename, but without the timestamp
_generate_material_filename_plain(original_filename, now) ==
    LET secured   == SecureFilename(original_filename)
        safe_name == IF secured = "" THEN "material" ELSE secured
        suffix    == Lower(Suffix(safe_name))
        ext       == IF suffix = "" THEN ".png" ELSE suffix
    IN Stem(safe_name) \o ext

_generate_material_filename(original_filename, now) ==
    LET secured   == SecureFilename(original_filename)
        safe_name == IF secured = "" THEN "material" ELSE secured
        base_name == Stem(safe_name)
        suffix    == Lower(Suffix(safe_name))
        ext       == IF suffix = "" THEN ".png" ELSE suffix
    IN base_name \o "_" \o IntToStr(now) \o ext

\* as Copy2, but the source is gone afterwards
Copy2_consuming(st, source, target) ==
    LET w == WriteFile(st, target, st.files[Norm(source)])
    IN IF w.err # "" THEN w ELSE [st |-> Unlink(w.st, source), err |-> ""]

\* shutil.copy2(source, target) for a target that is not a directory
Copy2(st, source, target) ==
    IF Norm(source) = Norm(target) THEN [st |-> st, err |-> "SameFileError"]
    ELSE IF ~IsFile(st, source) THEN [st |-> st, err |-> "IsADirectoryError"]
    ELSE WriteFile(st, target, st.files[Norm(source)])

\* as Move, but the source stays where it was
Move_keeping(st, source, target) == WriteFile(st, target, st.files[Norm(source)])

\* shutil.move(source, target) of a regular file to a target that is not a
\* directory: os.rename, which replaces a file already at target
Move(st, source, target) ==
    LET w == WriteFile(st, target, st.files[Norm(source)])
    IN IF w.err # "" \/ Norm(source) = Norm(target) THEN w
       ELSE [st |-> Unlink(w.st, source), err |-> ""]

\* as copy_material_file, but the target directory is made before the source
\* is looked up
copy_material_file_eager(st, relative_path, target_project_id, now) ==
    LET source_path  == PathJoin(UploadFolder, ReplaceBackslash(relative_path))
        target_dir   == _get_materials_target_dir(st, target_project_id)
        new_filename == _generate_material_filename(Name(source_path), now)
        target_path  == PathJoin(target_dir.path, new_filename)
        r == ReturnRelative(Copy2(target_dir.st, source_path, target_path), target_path)
    IN IF target_dir.err # "" THEN Raise(target_dir.st, target_dir.err)
       ELSE IF ~PathExists(target_dir.st, source_path)
       THEN Raise(target_dir.st, "FileNotFoundError")
       ELSE IF r.err # "" THEN r
       ELSE Result(r, <<r.ret, new_filename>>, "")

\* relative_path names a regular file or nothing
copy_material_file(st, relative_path, target_project_id, now) ==
    LET source_path  == PathJoin(UploadFolder, ReplaceBackslash(relative_path))
        target_dir   == _get_materials_target_dir(st, target_project_id)
        new_filename == _generate_material_filename(Name(source_path), now)
        target_path  == PathJoin(target_dir.path, new_filename)
        r == ReturnRelative(Copy2(target_dir.st, source_path, target_path), target_path)
    IN IF ~PathExists(st, source_path) THEN Raise(st, "FileNotFoundError")
       ELSE IF target_dir.err # "" THEN Raise(target_dir.st, target_dir.err)
       ELSE IF r.err # "" THEN r
       ELSE Result(r, <<r.ret, new_filename>>, "")

\* as move_material_file, but without the same-directory short cut
move_material_file_always(st, relative_path, target_project_id, now) ==
    LET source_path  == PathJoin(UploadFolder, ReplaceBackslash(relative_path))
        target_dir   == _get_materials_target_dir(st, target_project_id)
        new_filename == _generate_material_filename(Name(source_path), now)
        target_path  == PathJoin(target_dir.path, new_filename)
        r == ReturnRelative(Move(target_dir.st, source_path, target_path), target_path)
    IN IF ~PathExists(st, source_path) THEN Raise(st, "FileNotFoundError")
       ELSE IF target_dir.err # "" THEN Raise(target_dir.st, target_dir.err)
       ELSE IF r.err # "" THEN r
       ELSE Result(r, <<r.ret, new_filename>>, "")

\* relative_path names a regular file or nothing
move_material_file(st, relative_path, target_project_id, now) ==
    LET source_path  == PathJoin(UploadFolder, ReplaceBackslash(relative_path))
        target_dir   == _get_materials_target_dir(st, target_project_id)
        new_filename == _generate_material_filename(Name(source_path), now)
        target_path  == PathJoin(target_dir.path, new_filename)
        r == ReturnRelative(Move(target_dir.st, source_path, target_path), target_path)
    IN IF ~PathExists(st, source_path) THEN Raise(st, "FileNotFoundError")
       ELSE IF target_dir.err # "" THEN Raise(target_dir.st, target_dir.err)
       ELSE IF Parent(source_path) = target_dir.path
       THEN Result(target_dir.st, <<relative_path, Name(source_path)>>, "")
       ELSE IF r.err # "" THEN r
       ELSE Result(r, <<r.ret, new_filename>>, "")

(***************************************************************************)
(* LifecycleReaper                                                         *)
(***************************************************************************)
\* if p.exists() and p.is_file(): p.unlink()
UnlinkIfFile(st, p) == IF PathExists(st, p) /\ IsFile(st, p) THEN Unlink(st, p) ELSE st

\* as delete_page_image_version, but the cache file is only looked for when
\* the image was there
delete_page_image_version_paired(st, image_path) ==
    LET filepath       == PathJoin(UploadFolder, ReplaceBackslash(image_path))
        deleted        == PathExists(st, filepath) /\ IsFile(st, filepath)
        cache_filepath == PathJoin(Parent(filepath), Stem(Name(filepath)) \o "_thumb.jpg")
    IN IF deleted
       THEN Result(UnlinkIfFile(UnlinkIfFile(st, filepath), cache_filepath), TRUE, "")
       ELSE Result(st, FALSE, "")

\* as delete_page_image_version, but the cache file is looked up under the
\* name of the image instead of its stem
delete_page_image_version_by_name(st, image_path) ==
    LET filepath       == PathJoin(UploadFolder, ReplaceBackslash(image_path))
        deleted        == PathExists(st, filepath) /\ IsFile(st, filepath)
        cache_filepath == PathJoin(Parent(filepath), Name(filepath) \o "_thumb.jpg")
    IN Result(UnlinkIfFile(UnlinkIfFile(st, filepath), cache_filepath), deleted, "")

delete_page_image_version(st, image_path) ==
    LET filepath       == PathJoin(UploadFolder, ReplaceBackslash(image_path))
        deleted        == PathExists(st, filepath) /\ IsFile(st, filepath)
        cache_filepath == PathJoin(Parent(filepath), Stem(Name(filepath)) \o "_thumb.jpg")
    IN Result(UnlinkIfFile(UnlinkIfFile(st, filepath), cache_filepath), deleted, "")

\* for file in d.iterdir() / d.glob(...): if file.is_file(): file.unlink(),
\* over the files of the resolved directory d whose names are in the set names
UnlinkNamed(st, d, names) ==
    Storage(Without(st.files, {q \in FilesIn(st, d) : Name(q) \in names}), st.dirs)

delete_template(st, project_id) ==
    LET template_dir == _get_template_dir(st, project_id)
        d == Norm(template_dir.path)
    IN IF template_dir.err # "" THEN Raise(template_dir.st, template_dir.err)
       ELSE Result(UnlinkNamed(template_dir.st, d,
                               {Name(q) : q \in FilesIn(template_dir.st, d)}), TRUE, "")

\* the names in the directory that fnmatch the pattern {page_id}_*, for a
\* page_id free of glob metacharacters and of "/"
GlobPage(st, d, page_id) ==
    {Name(q) : q \in {f \in FilesIn(st, d) : StartsWith(Name(f), page_id \o "_")}}

delete_page_image(st, project_id, page_id) ==
    LET pages_dir == _get_pages_dir(st, project_id)
        d == Norm(pages_dir.path)
    IN IF pages_dir.err # "" THEN Raise(pages_dir.st, pages_dir.err)
       ELSE Result(UnlinkNamed(pages_dir.st, d, GlobPage(pages_dir.st, d, page_id)), TRUE, "")

\* as RmTreeIfExists, but without the look whether the directory exists
RmTreeAlways(dir) ==
    IF dir.err # "" THEN Raise(dir.st, dir.err)
    ELSE LET r == RmTree(dir.st, dir.path)
         IN IF r.err # "" THEN Raise(r.st, r.err) ELSE Result(r.st, TRUE, "")

\* if d.exists(): shutil.rmtree(d); return True
RmTreeIfExists(dir) ==
    IF dir.err # "" THEN Raise(dir.st, dir.err)
    ELSE IF ~PathExists(dir.st, dir.path) THEN Result(dir.st, TRUE, "")
    ELSE LET r == RmTree(dir.st, dir.path)
         IN IF r.err # "" THEN Raise(r.st, r.err) ELSE Result(r.st, TRUE, "")

\* as delete_project_files, but only the pages of the project are removed
delete_project_files_pages_only(st, project_id) ==
    RmTreeIfExists(_get_pages_dir(st, project_id))

delete_project_files(st, project_id) == RmTreeIfExists(_get_project_dir(st, project_id))

delete_user_template(st, template_id) ==
    LET templates_dir == _get_user_templates_dir(st)
    IN RmTreeIfExists([st |-> templates_dir.st, err |-> templates_dir.err,
                       path |-> PathJoin(templates_dir.path, template_id)])

(***************************************************************************)
(* Template lookup.  template_image_path is the column of the project row  *)
(* (None when the row or the value is missing); mt gives st_mtime.         *)
(***************************************************************************)
\* str(path) of an absolute path
Str(path) == "/" \o Join(path, "/")

\* as TemplateFiles, but any file whose name starts with 'template' counts
TemplateFiles_by_prefix(st, d) == {f \in FilesIn(st, d) : StartsWith(Name(f), "template")}

\* the files of the resolved directory d whose stem is 'template'
TemplateFiles(st, d) == {f \in FilesIn(st, d) : Stem(Name(f)) = "template"}

\* max(template_files, key=st_mtime): among files of equal time the one
\* iterdir() lists first, which may be any of them
Latest(template_files, mt) ==
    {f \in template_files : \A g \in template_files : mt[f] >= mt[g]}

\* the result is [st, rets, err]: rets holds every value the call may return
get_template_path(st, mt, project_id, template_image_path) ==
    LET template_path == PathJoin(UploadFolder, template_image_path)
        template_dir  == _get_template_dir(st, project_id)
        template_files == TemplateFiles(template_dir.st, Norm(template_dir.path))
    IN IF /\ template_image_path # None
          /\ template_image_path # ""
          /\ PathExists(st, template_path)
          /\ IsFile(st, template_path)
       THEN [st |-> st, rets |-> {Str(template_path)}, err |-> ""]
       ELSE IF template_dir.err # ""
       THEN [st |-> template_dir.st, rets |-> {None}, err |-> template_dir.err]
       ELSE IF template_files # {}
       THEN [st |-> template_dir.st,
             rets |-> {Str(PathJoin(template_dir.path, Name(f))) :
                          f \in Latest(template_files, mt)},
             err |-> ""]
       ELSE [st |-> template_dir.st, rets |-> {None}, err |-> ""]

(***************************************************************************)
(* State machine.  last describes the call made last (operation,           *)
(* arguments, return value, exception) and prev the storage it started     *)
(* from, last.now the clock it read.  last.first_removed is the number of  *)
(* files the call before it removed when that call was the same operation  *)
(* with the same arguments, and -1 otherwise.                              *)
(***************************************************************************)
Cur == Storage(files, dirs)

\* a request that is served step by step: the method and its arguments, the
\* step it is at, what it raised and returned, and its local variables
IdleProc ==
    [op |-> "", args |-> <<>>, pc |-> "idle", err |-> "", ret |-> None,
     path |-> <<>>, todo |-> {}, file |-> "", deleted |-> FALSE,
     detached |-> FALSE, wrote |-> FALSE]

Init ==
    /\ files = <<>>
    /\ dirs = Prefixes(UploadFolder)
    /\ clock = 1
    /\ last = [op |-> "init", args |-> <<>>, ret |-> None, err |-> "", now |-> 1, first_removed |-> 0 - 1]
    /\ prev = Storage(<<>>, Prefixes(UploadFolder))
    /\ mtime = <<>>
    /\ procs = <<IdleProc, IdleProc>>
    /\ projects = <<>>

\* the operations that write one file and return its path
Savers ==
    {"save_template_image", "save_template_image_with_key", "save_template_variant_image",
     "save_generated_image", "save_cached_image", "save_material_image",
     "save_user_template", "save_user_template_thumbnail"}

\* the resolved file a saver wrote when it returned ret
WrittenPath(op, args, ret) ==
    IF op = "save_cached_image"
    THEN Norm(PathJoin(UploadFolder, args[2]) \o <<"pages", Name(Parts(ret))>>)
    ELSE Norm(PathJoin(UploadFolder, ret))

\* st_mtime of the files after a call that left storage r: a file a saver
\* wrote has the time of the call; a file that is as before keeps its time;
\* a file made by shutil.copy2 or shutil.move has the time of its source
MTimeAfter(op, args, r) ==
    [q \in DOMAIN r.files |->
        IF op \in Savers /\ r.err = "" /\ r.ret # None /\ q = WrittenPath(op, args, r.ret)
        THEN clock
        ELSE IF q \in DOMAIN files /\ r.files[q] = files[q] THEN mtime[q]
        ELSE IF op \in {"copy_material_file", "move_material_file"}
        THEN mtime[Norm(PathJoin(UploadFolder, ReplaceBackslash(args[1])))]
        ELSE clock]

Call(op, args, r) ==
    /\ files' = r.files
    /\ dirs' = r.dirs
    /\ last' = [op |-> op, args |-> args, ret |-> r.ret, err |-> r.err, now |-> clock,
                first_removed |->
                    IF last.op = op /\ last.args = args
                    THEN Cardinality((DOMAIN prev.files) \ (DOMAIN files))
                    ELSE 0 - 1]
    /\ prev' = Cur
    /\ mtime' = MTimeAfter(op, args, r)
    /\ UNCHANGED <<clock, procs, projects>>

\* the call leaves at most n files in storage
Within(n) == Cardinality(DOMAIN files') <= n

\* the clock reaches the next millisecond
Tick ==
    /\ clock < MaxClock
    /\ clock' = clock + 1
    /\ UNCHANGED <<files, dirs, last, prev, mtime, procs, projects>>

SaveTemplateImage(file, project_id) ==
    Call("save_template_image", <<file, project_id>>,
         save_template_image(Cur, file, project_id))

SaveTemplateImageWithKey(file, project_id, template_key) ==
    Call("save_template_image_with_key", <<file, project_id, template_key>>,
         save_template_image_with_key(Cur, file, project_id, template_key))

SaveTemplateVariantImage(image, project_id, variant_key, image_format, template_key, with_timestamp) ==
    Call("save_template_variant_image",
         <<image, project_id, variant_key, image_format, template_key, with_timestamp>>,
         save_template_variant_image(Cur, image, project_id, variant_key, image_format,
                                     template_key, with_timestamp, clock))

SaveGeneratedImage(image, project_id, page_id, image_format, version_number) ==
    Call("save_generated_image", <<image, project_id, page_id, image_format, version_number>>,
         save_generated_image(Cur, image, project_id, page_id, image_format, version_number, clock))

SaveCachedImage(image, project_id, page_id, version_number) ==
    Call("save_cached_image", <<image, project_id, page_id, version_number>>,
         save_cached_image(Cur, image, project_id, page_id, version_number))

SaveMaterialImage(image, project_id, image_format) ==
    Call("save_material_image", <<image, project_id, image_format>>,
         save_material_image(Cur, image, project_id, image_format, clock))

SaveUserTemplate(file, template_id) ==
    Call("save_user_template", <<file, template_id>>,
         save_user_template(Cur, file, template_id))

CopyMaterialFile(relative_path, target_project_id) ==
    Call("copy_material_file", <<relative_path, target_project_id>>,
         copy_material_file(Cur, relative_path, target_project_id, clock))

MoveMaterialFile(relative_path, target_project_id) ==
    Call("move_material_file", <<relative_path, target_project_id>>,
         move_material_file(Cur, relative_path, target_project_id, clock))

DeletePageImageVersion(image_path) ==
    Call("delete_page_image_version", <<image_path>>,
         delete_page_image_version(Cur, image_path))

DeletePageImage(project_id, page_id) ==
    Call("delete_page_image", <<project_id, page_id>>,
         delete_page_image(Cur, project_id, page_id))

DeleteTemplate(project_id) ==
    Call("delete_template", <<project_id>>, delete_template(Cur, project_id))

DeleteProjectFiles(project_id) ==
    Call("delete_project_files", <<project_id>>, delete_project_files(Cur, project_id))

DeleteUserTemplate(template_id) ==
    Call("delete_user_template", <<template_id>>, delete_user_template(Cur, template_id))

\* the method reads and writes nothing: storage is handed through
GetCachedImagePath(project_id, page_id, version_number) ==
    Call("get_cached_image_path", <<project_id, page_id, version_number>>,
         Result(Cur, get_cached_image_path(project_id, page_id, version_number), ""))

GetTemplatePath(project_id, template_image_path) ==
    LET g == get_template_path(Cur, mtime, project_id, template_image_path)
    IN \E ret \in g.rets :
          Call("get_template_path", <<project_id, template_image_path>>,
               Result(g.st, ret, g.err))

ResizeImageForThumbnail(image, max_width) ==
    LET r == resize_image_for_thumbnail(image, max_width)
    IN Call("resize_image_for_thumbnail", <<image, max_width>>, Result(Cur, r.image, r.err))

SaveUserTemplateThumbnail(template_id, original_path) ==
    Call("save_user_template_thumbnail", <<template_id, original_path>>,
         save_user_template_thumbnail(Cur, template_id, original_path))

(***************************************************************************)
(* Inputs                                                                  *)
(***************************************************************************)
Projects == {"p1"}
Pages == {"a", "a_b"}
Versions == 1..MaxVersion
Formats == {"PNG"}
Images == {"A"}
Uploads == {[filename |-> "My Template.JPG", content |-> "A"]}
TemplateIds == {"t1"}

\* the path strings handed out for the files of st that lie below the root
PathsOf(st) ==
    {RelativeTo(q, UploadFolder) :
        q \in {f \in DOMAIN st.files : IsRelativeTo(f, UploadFolder)}}

\* paths a caller may hold: of files present now or before the last call
KnownPaths == PathsOf(Cur) \cup PathsOf(prev)

(***************************************************************************)
(* Spec: the versions of the pages of a project and their thumbnails       *)
(***************************************************************************)
Next ==
    \/ \E image \in Images, project_id \in Projects, page_id \in Pages,
          image_format \in Formats, version_number \in Versions \cup {NoVersion} :
          SaveGeneratedImage(image, project_id, page_id, image_format, version_number) /\ Within(MaxFiles)
    \/ \E image \in Images, project_id \in Projects, page_id \in Pages,
          version_number \in Versions :
          SaveCachedImage(image, project_id, page_id, version_number) /\ Within(MaxFiles)
    \/ \E image_path \in KnownPaths : DeletePageImageVersion(image_path) /\ Within(MaxFiles)
    \/ \E project_id \in Projects, page_id \in Pages : DeletePageImage(project_id, page_id) /\ Within(MaxFiles)
    \/ \E project_id \in Projects : DeleteProjectFiles(project_id) /\ Within(MaxFiles)

Spec == Init /\ [][Next]_vars

(***************************************************************************)
(* SpecReap: every reaper operation, over a project and the user templates *)
(***************************************************************************)
ReapProjects == {"p1"}
ReapPages == {"a"}

NextReap ==
    \/ \E image \in Images, project_id \in ReapProjects, page_id \in ReapPages,
          image_format \in Formats, version_number \in {1, NoVersion} :
          SaveGeneratedImage(image, project_id, page_id, image_format, version_number) /\ Within(MaxFiles)
    \/ \E image \in Images, project_id \in ReapProjects, page_id \in ReapPages :
          SaveCachedImage(image, project_id, page_id, 1) /\ Within(MaxFiles)
    \/ \E file \in Uploads, project_id \in ReapProjects : SaveTemplateImage(file, project_id) /\ Within(MaxFiles)
    \/ \E file \in Uploads, template_id \in TemplateIds : SaveUserTemplate(file, template_id) /\ Within(MaxFiles)
    \/ \E image_path \in KnownPaths : DeletePageImageVersion(image_path) /\ Within(MaxFiles)
    \/ \E project_id \in ReapProjects, page_id \in ReapPages :
          DeletePageImage(project_id, page_id) /\ Within(MaxFiles)
    \/ \E project_id \in ReapProjects : DeleteTemplate(project_id) /\ Within(MaxFiles)
    \/ \E project_id \in ReapProjects : DeleteProjectFiles(project_id) /\ Within(MaxFiles)
    \/ \E template_id \in TemplateIds : DeleteUserTemplate(template_id) /\ Within(MaxFiles)

SpecReap == Init /\ [][NextReap]_vars

(***************************************************************************)
(* SpecMaterial: materials saved, copied and moved between the global      *)
(* scope and a project while the clock runs                                *)
(***************************************************************************)
Scopes == {None, "p1"}
MaterialImages == {"A"}
\* a path no file is ever stored at
MissingPaths == {"p1/materials/material_0.png"}
\* a path in the spelling of Windows, of a file that is there or not
BackslashPaths == {"materials\\material_1.png"}

\* longest file name that is still copied or moved
MaxNameLen == 14

\* the paths of the stored files whose names are short enough
Transferable == {rp \in PathsOf(Cur) : Len(Name(Parts(rp))) <= MaxNameLen}

NextMaterial ==
    \/ Tick
    \/ \E image \in MaterialImages, project_id \in Scopes, image_format \in Formats :
          SaveMaterialImage(image, project_id, image_format) /\ Within(MaxMaterials)
    \/ \E relative_path \in Transferable \cup MissingPaths, target_project_id \in Scopes :
          CopyMaterialFile(relative_path, target_project_id) /\ Within(MaxMaterials)
    \/ \E relative_path \in Transferable \cup BackslashPaths, target_project_id \in Scopes :
          MoveMaterialFile(relative_path, target_project_id) /\ Within(MaxMaterials)

SpecMaterial == Init /\ [][NextMaterial]_vars

(***************************************************************************)
(* SpecWrite: every write operation, with identifiers that hold ".."       *)
(* segments or an absolute path                                            *)
(***************************************************************************)
WriteProjects == {"..", "/tmp"}
WritePages == {"a"}
WriteTemplateIds == {"t1", "../.."}
TemplateKeys == {"k 1"}
VariantKeys == {"cover"}

WriteOps ==
    {"save_template_image", "save_template_image_with_key", "save_template_variant_image",
     "save_generated_image", "save_cached_image", "save_material_image",
     "save_user_template", "copy_material_file", "move_material_file"}

NextWrite ==
    \/ \E file \in Uploads, project_id \in WriteProjects :
          SaveTemplateImage(file, project_id) /\ Within(MaxWritten)
    \/ \E file \in Uploads, project_id \in WriteProjects, template_key \in TemplateKeys :
          SaveTemplateImageWithKey(file, project_id, template_key) /\ Within(MaxWritten)
    \/ \E image \in Images, project_id \in WriteProjects, variant_key \in VariantKeys,
          image_format \in Formats, template_key \in TemplateKeys \cup {None},
          with_timestamp \in {TRUE} :
          SaveTemplateVariantImage(image, project_id, variant_key, image_format, template_key, with_timestamp) /\ Within(MaxWritten)
    \/ \E image \in Images, project_id \in WriteProjects, page_id \in WritePages,
          image_format \in Formats, version_number \in {1} :
          SaveGeneratedImage(image, project_id, page_id, image_format, version_number) /\ Within(MaxWritten)
    \/ \E image \in Images, project_id \in WriteProjects, page_id \in WritePages :
          SaveCachedImage(image, project_id, page_id, 1) /\ Within(MaxWritten)
    \/ \E image \in Images, project_id \in WriteProjects \cup {None}, image_format \in Formats :
          SaveMaterialImage(image, project_id, image_format) /\ Within(MaxWritten)
    \/ \E file \in Uploads, template_id \in WriteTemplateIds :
          SaveUserTemplate(file, template_id) /\ Within(MaxWritten)
    \/ \E relative_path \in Transferable, target_project_id \in WriteProjects \cup {None} :
          CopyMaterialFile(relative_path, target_project_id) /\ Within(MaxWritten)
    \/ \E relative_path \in Transferable, target_project_id \in WriteProjects \cup {None} :
          MoveMaterialFile(relative_path, target_project_id) /\ Within(MaxWritten)

SpecWrite == Init /\ [][NextWrite]_vars

(***************************************************************************)
(* Claims                                                                  *)
(***************************************************************************)
\* C1: from every reachable storage state and for every project, page,
\* version and format, saving the page image, caching its thumbnail and then
\* deleting the version by the path the save returned leaves file_exists
\* false for the primary path and for get_cached_image_path(project, page,
\* version).
C1_DeleteVersionRemovesBoth ==
    \A image \in Images, project_id \in Projects, page_id \in Pages,
       image_format \in Formats, version_number \in Versions :
        LET saved   == save_generated_image(Cur, image, project_id, page_id,
                                            image_format, version_number, clock)
            cached  == save_cached_image(saved, image, project_id, page_id, version_number)
            deleted == delete_page_image_version(cached, saved.ret)
        IN (saved.err = "" /\ cached.err = "") =>
               /\ file_exists(cached, saved.ret)
               /\ file_exists(cached, cached.ret)
               /\ deleted.err = ""
               /\ ~file_exists(deleted, saved.ret)
               /\ ~file_exists(deleted,
                               get_cached_image_path(project_id, page_id, version_number))

\* C1 witness: delete_page_image_version was called on the path of a saved
\* version whose thumbnail was cached, it returned true, and both files,
\* present before the call, are gone.
C1_Witness ==
    /\ last.op = "delete_page_image_version"
    /\ last.err = ""
    /\ last.ret = TRUE
    /\ \E project_id \in Projects, page_id \in Pages, version_number \in Versions :
         LET thumb == get_cached_image_path(project_id, page_id, version_number)
         IN /\ last.args[1] = project_id \o "/pages/" \o page_id \o "_v"
                                \o IntToStr(version_number) \o ".png"
            /\ file_exists(prev, last.args[1])
            /\ file_exists(prev, thumb)
            /\ ~file_exists(Cur, last.args[1])
            /\ ~file_exists(Cur, thumb)

IsDigits(s) == s # "" /\ Chars(s) \subseteq Chars("0123456789")

EndsWith(s, suf) == Len(suf) <= Len(s) /\ SubSeq(s, Len(s) - Len(suf) + 1, Len(s)) = suf

\* the file name is one the naming scheme gives to page page_id:
\* {page_id}_v{version}.{ext}, {page_id}_{timestamp}.{ext} or
\* {page_id}_v{version}_thumb.jpg
NamedForPage(name, page_id) ==
    /\ StartsWith(name, page_id \o "_")
    /\ LET stem == Stem(SubSeq(name, Len(page_id) + 2, Len(name)))
       IN \/ IsDigits(stem)
          \/ StartsWith(stem, "v") /\ IsDigits(Tail(stem))
          \/ /\ StartsWith(stem, "v") /\ EndsWith(stem, "_thumb")
             /\ IsDigits(SubSeq(stem, 2, Len(stem) - 6))

\* the resolved pages directory of a project
PagesDirOf(project_id) == Norm(Append(PathJoin(UploadFolder, project_id), "pages"))

\* C2: delete_page_image(project, page) removes every version file and every
\* thumbnail of that page and leaves every other file, in particular the
\* files of the other pages of the project, as it was.
C2_DeletePageKeepsOtherPages ==
    (last.op = "delete_page_image" /\ last.err = "") =>
        \A q \in DOMAIN prev.files :
            IF Parent(q) = PagesDirOf(last.args[1]) /\ NamedForPage(Name(q), last.args[2])
            THEN q \notin DOMAIN files
            ELSE q \in DOMAIN files /\ files[q] = prev.files[q]

\* the path string a write operation returned
ReturnedPath ==
    IF last.op \in {"copy_material_file", "move_material_file"} THEN last.ret[1] ELSE last.ret

\* C3: every write operation, for every value of its identifying
\* parameters, writes inside the storage root, and the relative path it
\* returns, joined to the root, lies within the root.
C3_WritesStayInsideRoot ==
    /\ \A q \in DOMAIN files : Under(q, UploadFolder)
    /\ (last.op \in WriteOps /\ last.err = "") =>
           Under(Norm(PathJoin(UploadFolder, ReturnedPath)), UploadFolder)

(***************************************************************************)
(* Materials: the last call was copy_material_file or move_material_file   *)
(* of SourcePath into the scope whose materials directory is TargetDir.    *)
(***************************************************************************)
IsTransfer == last.op \in {"copy_material_file", "move_material_file"}

\* the resolved source of the last transfer
SourcePath == Norm(PathJoin(UploadFolder, ReplaceBackslash(last.args[1])))

\* the resolved materials directory of the target scope of the last transfer
TargetDir ==
    IF last.args[2] = None THEN Append(UploadFolder, "materials")
    ELSE Norm(Append(PathJoin(UploadFolder, last.args[2]), "materials"))

\* the resolved file the last transfer returned
TargetPath == Norm(PathJoin(UploadFolder, last.ret[1]))

\* the last call created a file in the target directory
Transferred ==
    /\ IsTransfer
    /\ last.err = ""
    /\ ~(last.op = "move_material_file" /\ Parent(SourcePath) = TargetDir)

\* every file the target directory held before the last call is still there,
\* with its content
TargetDirKept ==
    \A q \in FilesIn(prev, TargetDir) : q \in DOMAIN files /\ files[q] = prev.files[q]

\* the timestamp a material file name ends with: the text after the last "_"
\* of its stem
StampOf(name) == SubSeq(Stem(name), RFind(Stem(name), "_") + 1, Len(Stem(name)))

\* C4 as stated: the file name a copy or move creates is the name of no file
\* already in the target directory, so no file of the target scope is
\* overwritten or removed, also for transfers within one millisecond.
C4_TransferNeverOverwrites ==
    Transferred => (TargetPath \notin DOMAIN prev.files /\ TargetDirKept)

\* C4 amended: when no file of the target directory carries the millisecond
\* of the call as the timestamp of its name, the file name a copy or move
\* creates is the name of no file already there and every file of the target
\* scope is kept.
C4_TransferKeepsOlderFiles ==
    (/\ Transferred
     /\ \A q \in FilesIn(prev, TargetDir) : StampOf(Name(q)) # IntToStr(last.now))
        => (TargetPath \notin DOMAIN prev.files /\ TargetDirKept)

\* C4 witness: a file was copied or moved into a directory that already held
\* a file made from the same material in an earlier millisecond, and both
\* are there.
C4_Witness ==
    /\ Transferred
    /\ \E q \in FilesIn(prev, TargetDir) :
          /\ StampOf(Name(q)) # IntToStr(last.now)
          /\ StartsWith(Name(TargetPath), Stem(Name(q)))
          /\ q \in DOMAIN files
    /\ TargetPath \notin DOMAIN prev.files
    /\ TargetPath \in DOMAIN files

\* C5: after move_material_file of a file that is not in the target
\* directory, the source path is no file, the returned path is a file of the
\* target directory with the source's content and the returned name, and no
\* other file appeared: the material is in one scope only.
C5_MoveRelocates ==
    (last.op = "move_material_file" /\ last.err = "" /\ Parent(SourcePath) # TargetDir) =>
        /\ ~file_exists(Cur, last.args[1])
        /\ file_exists(Cur, last.ret[1])
        /\ Parent(TargetPath) = TargetDir
        /\ Name(TargetPath) = last.ret[2]
        /\ files[TargetPath] = prev.files[SourcePath]
        /\ \A q \in (DOMAIN files) \ {TargetPath} :
              q # SourcePath /\ q \in DOMAIN prev.files /\ files[q] = prev.files[q]

\* C5 witness: a material was moved from one scope into the other.
C5_Witness ==
    /\ last.op = "move_material_file"
    /\ last.err = ""
    /\ Parent(SourcePath) # TargetDir
    /\ SourcePath \in DOMAIN prev.files
    /\ SourcePath \notin DOMAIN files
    /\ TargetPath \in DOMAIN files

\* C6: after a successful copy_material_file the source file is still there
\* with its content, and the returned path is another file, in the target
\* directory, with the same content; also when the target scope is the
\* source's own.
C6_CopyKeepsSource ==
    (last.op = "copy_material_file" /\ last.err = "") =>
        /\ SourcePath \in DOMAIN prev.files
        /\ file_exists(Cur, last.args[1])
        /\ files[SourcePath] = prev.files[SourcePath]
        /\ TargetPath # SourcePath
        /\ file_exists(Cur, last.ret[1])
        /\ Parent(TargetPath) = TargetDir
        /\ Name(TargetPath) = last.ret[2]
        /\ files[TargetPath] = prev.files[SourcePath]

\* C6 witness: a material was copied within its own scope.
C6_Witness ==
    /\ last.op = "copy_material_file"
    /\ last.err = ""
    /\ Parent(SourcePath) = TargetDir
    /\ SourcePath \in DOMAIN files
    /\ TargetPath \in DOMAIN files
    /\ TargetPath \notin DOMAIN prev.files

\* C7: move_material_file of a file that already is in the directory of the
\* target scope returns the path it was given and the file's name, and
\* leaves storage as it was.
C7_MoveWithinScopeIsNoOp ==
    (/\ last.op = "move_material_file"
     /\ SourcePath \in DOMAIN prev.files
     /\ Parent(SourcePath) = TargetDir) =>
        /\ last.err = ""
        /\ last.ret = <<last.args[1], Name(SourcePath)>>
        /\ files = prev.files
        /\ dirs = prev.dirs

\* C7 witness: a material of a project was moved to that project.
C7_Witness ==
    /\ last.op = "move_material_file"
    /\ last.args[2] # None
    /\ SourcePath \in DOMAIN prev.files
    /\ Parent(SourcePath) = TargetDir
    /\ last.ret[1] = last.args[1]
    /\ SourcePath \in DOMAIN files

\* C8: copy_material_file and move_material_file of a path at which nothing
\* exists raise the not-found error and leave storage as it was: no file and
\* no directory is created, moved or removed.
C8_MissingSourceFails ==
    (IsTransfer /\ SourcePath \notin (DOMAIN prev.files) \cup prev.dirs) =>
        /\ last.err = "FileNotFoundError"
        /\ files = prev.files
        /\ dirs = prev.dirs

\* C8 witness: a copy of a missing path into a scope whose materials
\* directory does not exist was refused.
C8_Witness ==
    /\ last.op = "copy_material_file"
    /\ SourcePath \notin (DOMAIN prev.files) \cup prev.dirs
    /\ last.err = "FileNotFoundError"
    /\ TargetDir \notin dirs

(***************************************************************************)
(* Reapers                                                                 *)
(***************************************************************************)
Reapers ==
    {"delete_page_image_version", "delete_page_image", "delete_template",
     "delete_project_files", "delete_user_template"}

\* the last call repeated the call before it
Repeated == last.op \in Reapers /\ last.first_removed >= 0

\* C9: no call of a reaper raises, and a reaper called a second time in a
\* row with the same arguments removes nothing: the files (and directories)
\* are those the first call left.
C9_ReapersAreIdempotent ==
    (last.op \in Reapers) =>
        /\ last.err = ""
        /\ Repeated => (files = prev.files /\ dirs = prev.dirs)

\* C9 witness: a reaper that had removed files was called again and found
\* nothing to remove.
C9_Witness ==
    /\ Repeated
    /\ last.first_removed > 0
    /\ last.err = ""
    /\ files = prev.files

\* the directory of the project the last call was about
ProjectDirOfLast == Norm(PathJoin(UploadFolder, last.args[1]))

\* C10: delete_project_files returns True whatever the state; afterwards
\* neither the project directory nor any file or directory below it exists,
\* and when the project directory did not exist before the call, storage is
\* as it was before.
C10_DeleteProjectRemovesSubtree ==
    (last.op = "delete_project_files") =>
        /\ last.err = ""
        /\ last.ret = TRUE
        /\ \A q \in (DOMAIN files) \cup dirs : ~Under(q, ProjectDirOfLast)
        /\ (ProjectDirOfLast \notin prev.dirs) => (files = prev.files /\ dirs = prev.dirs)

\* C10 witness: a project with a page image and a template was deleted while
\* a file outside it stayed.
C10_Witness ==
    /\ last.op = "delete_project_files"
    /\ last.ret = TRUE
    /\ \E q \in DOMAIN prev.files : Under(q, Append(ProjectDirOfLast, "pages"))
    /\ \E q \in DOMAIN prev.files : Under(q, Append(ProjectDirOfLast, "template"))
    /\ \E q \in DOMAIN files : ~Under(q, ProjectDirOfLast)
    /\ ProjectDirOfLast \notin dirs

\* C10 witness of the absent case: delete_project_files of a project that
\* has no directory.
C10_AbsentCase ==
    /\ last.op = "delete_project_files"
    /\ ProjectDirOfLast \notin prev.dirs
    /\ prev.files # <<>>

(***************************************************************************)
(* SpecThumb: page images, user templates and their thumbnails, with       *)
(* images the codec rejects and a page id that holds a "/"                 *)
(***************************************************************************)
ThumbImages == {"A", "X"}
ThumbPages == {"a", "x/a"}
ThumbUploads ==
    {[filename |-> "t.png", content |-> "A"], [filename |-> "t.gif", content |-> "X"]}
\* paths a caller may ask about whatever is stored: of a page image, of a
\* directory
ProbePaths == {"p1/pages/a_v1.png", "p1/pages"}
\* what save_user_template returns for the uploads, and a directory
OriginalPaths ==
    {"user-templates/t1/template.png", "user-templates/t1/template.gif", "user-templates/t1"}

NextThumb ==
    \/ \E image \in ThumbImages, page_id \in ThumbPages :
          SaveGeneratedImage(image, "p1", page_id, "PNG", 1) /\ Within(MaxFiles)
    \/ \E image \in ThumbImages, page_id \in ThumbPages :
          SaveCachedImage(image, "p1", page_id, 1) /\ Within(MaxFiles)
    \/ \E file \in ThumbUploads : SaveUserTemplate(file, "t1") /\ Within(MaxFiles)
    \/ \E original_path \in OriginalPaths :
          SaveUserTemplateThumbnail("t1", original_path) /\ Within(MaxFiles)
    \/ \E image_path \in KnownPaths \cup ProbePaths :
          DeletePageImageVersion(image_path) /\ Within(MaxFiles)

SpecThumb == Init /\ [][NextThumb]_vars

\* every file of prev is still there with its content
PrevFilesKept == \A q \in DOMAIN prev.files : q \in DOMAIN files /\ files[q] = prev.files[q]

\* the last call made a thumbnail of an image the codec rejects
ThumbnailFailed ==
    \/ last.op = "save_cached_image" /\ last.args[1] \in BrokenImages
    \/ /\ last.op = "save_user_template_thumbnail"
       /\ file_exists(prev, last.args[2])
       /\ prev.files[Norm(PathJoin(UploadFolder, ReplaceBackslash(last.args[2])))] \in BrokenImages

\* C11: when the codec fails, save_cached_image and
\* save_user_template_thumbnail raise nothing and return None, and every
\* file that was there, the primary image included, stays as it was.
C11_ThumbnailFailureIsAbsorbed ==
    ThumbnailFailed => (last.err = "" /\ last.ret = None /\ PrevFilesKept)

\* the bytes the last write operation was to store
WrittenByLast ==
    CASE last.op = "save_generated_image" -> last.args[1]
      [] last.op = "save_cached_image" -> ThumbnailOf(last.args[1])
      [] last.op = "save_user_template" -> last.args[1].content
      [] last.op = "save_user_template_thumbnail" ->
            WebpOf(prev.files[Norm(PathJoin(UploadFolder, ReplaceBackslash(last.args[2])))])

ThumbWriters ==
    {"save_generated_image", "save_cached_image", "save_user_template",
     "save_user_template_thumbnail"}

\* C16: the relative path a write operation returns, joined to the root, is
\* the file the operation wrote: a regular file holding the bytes written,
\* also for save_cached_image, whatever the project_id and page_id.
C16_ReturnedPathNamesWrittenFile ==
    (last.op \in ThumbWriters /\ last.err = "" /\ last.ret # None) =>
        /\ file_exists(Cur, last.ret)
        /\ files[Norm(PathJoin(UploadFolder, last.ret))] = WrittenByLast

\* the resolved path the last delete_page_image_version was given, and the
\* cache file that belongs to it
VersionPath == Norm(PathJoin(UploadFolder, ReplaceBackslash(last.args[1])))
VersionThumbPath == Append(Parent(VersionPath), Stem(Name(VersionPath)) \o "_thumb.jpg")

\* C17: delete_page_image_version returns True exactly when a regular file
\* was at the path; afterwards neither that file nor <stem>_thumb.jpg next
\* to it exists, whether or not either was there before; it never raises
\* and touches nothing else.
C17_DeleteVersionReportsPrimary ==
    (last.op = "delete_page_image_version") =>
        /\ last.err = ""
        /\ last.ret = (VersionPath \in DOMAIN prev.files)
        /\ DOMAIN files = (DOMAIN prev.files) \ {VersionPath, VersionThumbPath}
        /\ \A q \in DOMAIN files : files[q] = prev.files[q]
        /\ dirs = prev.dirs

\* C17 witness: the image was not there, its thumbnail was, and the call
\* returned False and removed the thumbnail.
C17_Witness ==
    /\ last.op = "delete_page_image_version"
    /\ last.ret = FALSE
    /\ VersionPath \notin DOMAIN prev.files
    /\ VersionThumbPath \in DOMAIN prev.files
    /\ VersionThumbPath \notin DOMAIN files

(***************************************************************************)
(* SpecLookup: thumbnails are stored and their paths are asked for         *)
(***************************************************************************)
\* largest version number a thumbnail path is asked for
MaxLookupVersion == 11

LookupProjects == {"p1", "p2"}
LookupPages == {"a", "a_v1"}
LookupVersions == 0..MaxLookupVersion

NextLookup ==
    \/ \E version_number \in Versions :
          SaveCachedImage("A", "p1", "a", version_number) /\ Within(MaxFiles)
    \/ \E project_id \in LookupProjects, page_id \in LookupPages,
          version_number \in LookupVersions :
          GetCachedImagePath(project_id, page_id, version_number)

SpecLookup == Init /\ [][NextLookup]_vars

\* C12: get_cached_image_path leaves storage as it is, its result is the
\* path save_cached_image stores the thumbnail of these arguments at, and
\* no other version number of the same project and page gives that path.
C12_CachedPathTellsVersionsApart ==
    (last.op = "get_cached_image_path") =>
        /\ last.err = ""
        /\ files = prev.files
        /\ dirs = prev.dirs
        /\ \A v \in LookupVersions \ {last.args[3]} :
              get_cached_image_path(last.args[1], last.args[2], v) # last.ret
        /\ save_cached_image(Cur, "A", last.args[1], last.args[2], last.args[3]).ret = last.ret

\* C12 witness: the path of version 11 was asked for while the thumbnail of
\* version 1 of that page is stored, and it is not that thumbnail's path.
C12_Witness ==
    /\ last.op = "get_cached_image_path"
    /\ last.args = <<"p1", "a", 11>>
    /\ file_exists(Cur, get_cached_image_path("p1", "a", 1))
    /\ ~file_exists(Cur, last.ret)

(***************************************************************************)
(* Materials: the last call was save_material_image into the scope whose   *)
(* materials directory is SavedScopeDir.                                   *)
(***************************************************************************)
SavedScopeDir ==
    IF last.args[2] = None THEN Append(UploadFolder, "materials")
    ELSE Norm(Append(PathJoin(UploadFolder, last.args[2]), "materials"))

SavedMaterial == Norm(PathJoin(UploadFolder, last.ret))

MaterialSaved == last.op = "save_material_image" /\ last.err = ""

\* the scope holds one file more than before the call, a file in that
\* scope that was not there, and the files that were there are kept
OneMoreMaterial ==
    /\ Parent(SavedMaterial) = SavedScopeDir
    /\ SavedMaterial \notin DOMAIN prev.files
    /\ SavedMaterial \in DOMAIN files
    /\ FilesIn(Cur, SavedScopeDir) = FilesIn(prev, SavedScopeDir) \cup {SavedMaterial}
    /\ PrevFilesKept

MaxSide == 6

Sizes == 1..MaxSide

NextResize ==
    \E width \in Sizes, height \in Sizes, max_width \in Sizes :
        ResizeImageForThumbnail([width |-> width, height |-> height], max_width)

SpecResize == Init /\ [][NextResize]_vars

\* round(n / d) of Python for n >= 0, d > 0: to the nearest integer, a half
\* to the even one
RoundDiv(n, d) ==
    LET q == n \div d
        r == n % d
    IN IF 2 * r < d THEN q
       ELSE IF 2 * r > d THEN q + 1
       ELSE IF q % 2 = 0 THEN q ELSE q + 1

\* C19: what resize_image_for_thumbnail returns is, for an image of width
\* <= max_width, the image unchanged, and for a wider one an image of width
\* max_width and height round(height * max_width / width).
C19_ResizeRoundsHeight ==
    (last.op = "resize_image_for_thumbnail" /\ last.err = "") =>
        LET image     == last.args[1]
            max_width == last.args[2]
        IN IF image.width <= max_width THEN last.ret = image
           ELSE last.ret = [width  |-> max_width,
                            height |-> RoundDiv(image.height * max_width, image.width)]

(***************************************************************************)
(* SpecTemplate: templates of a project are saved, with and without a key, *)
(* while the clock runs, and the template path is asked for                *)
(***************************************************************************)
TemplateUploads ==
    {[filename |-> "t.png", content |-> "A"], [filename |-> "t.jpg", content |-> "A"]}
KeyedUploads == {[filename |-> "t.gif", content |-> "A"]}
\* values of the stored path column: none, a template, a keyed template, a
\* path no file is ever stored at
StoredPaths ==
    {None, "p1/template/template.png", "p1/template/template_k.gif",
     "p1/template/template.bmp"}

NextTemplate ==
    \/ Tick
    \/ \E file \in TemplateUploads : SaveTemplateImage(file, "p1") /\ Within(MaxFiles)
    \/ \E file \in KeyedUploads : SaveTemplateImageWithKey(file, "p1", "k") /\ Within(MaxFiles)
    \/ \E template_image_path \in StoredPaths : GetTemplatePath("p1", template_image_path)

SpecTemplate == Init /\ [][NextTemplate]_vars

\* the project the last call was about, its template directory, and the
\* files in it whose stem is exactly "template"
LookupProject == IF last.op = "save_template_image" THEN last.args[2] ELSE last.args[1]
LookupDir == Norm(PathJoin(UploadFolder, LookupProject) \o <<"template">>)
PlainTemplates == {f \in FilesIn(Cur, LookupDir) : Stem(Name(f)) = "template"}

\* what get_template_path returned is the stored path when it is set and
\* names a file, else a most recently modified file of stem "template" in
\* the template directory, else None
LookupIsRight ==
    (last.op = "get_template_path") =>
        LET stored == last.args[2]
        IN /\ last.err = ""
           /\ files = prev.files
           /\ IF stored # None /\ file_exists(prev, stored)
              THEN last.ret = Str(PathJoin(UploadFolder, stored))
              ELSE IF PlainTemplates = {} THEN last.ret = None
              ELSE \E f \in PlainTemplates :
                      /\ last.ret = Str(f)
                      /\ \A g \in PlainTemplates : mtime[f] >= mtime[g]

\* the un-keyed template file save_template_image just wrote
SavedTemplate == Norm(PathJoin(UploadFolder, last.ret))

TemplateSaved == last.op = "save_template_image" /\ last.err = ""

\* with no stored path, get_template_path can only return the file just saved
LastSavedIsReturned ==
    get_template_path(Cur, mtime, last.args[2], None).rets = {Str(SavedTemplate)}

\* C18 as stated: get_template_path returns the stored path when it is set
\* and the file exists, otherwise the most recently modified file of stem
\* "template" (None when there is none); so after any un-keyed
\* save_template_image, with no stored path, it returns the file saved last.
C18_LastSavedTemplateIsFound ==
    LookupIsRight /\ (TemplateSaved => LastSavedIsReturned)

\* C18 amended: the same, but the file saved last is the one returned when
\* every other file of stem "template" was modified at an earlier time.
C18_LaterSavedTemplateIsFound ==
    /\ LookupIsRight
    /\ (/\ TemplateSaved
        /\ \A g \in PlainTemplates \ {SavedTemplate} : mtime[g] < mtime[SavedTemplate])
          => LastSavedIsReturned

\* C18 witness: the stored path names no file, the directory holds two files
\* of stem "template" of different age and a keyed one that is not older,
\* and the younger of the two was returned.
C18_Witness ==
    /\ last.op = "get_template_path"
    /\ last.args[2] # None
    /\ ~file_exists(Cur, last.args[2])
    /\ \E f, g \in PlainTemplates :
          /\ mtime[f] > mtime[g]
          /\ last.ret = Str(f)
          /\ \E k \in FilesIn(Cur, LookupDir) \ PlainTemplates : mtime[k] >= mtime[f]

(***************************************************************************)
(* Concurrent requests.  The service takes no lock: two requests run their  *)
(* method at the same time and the file system sees their system calls one  *)
(* at a time, in any order.  procs[i] is the request of thread i: a step    *)
(* is one call of the method that reaches the file system.                  *)
(***************************************************************************)
Pids == {1, 2}

\* the project_id argument of the running method
ProjectOf(p) == IF p.op = "save_generated_image" THEN p.args[2] ELSE p.args[1]

\* filename of save_generated_image
GeneratedFilename(page_id, image_format, version_number, now) ==
    IF version_number # NoVersion
    THEN page_id \o "_v" \o IntToStr(version_number) \o "." \o Lower(image_format)
    ELSE page_id \o "_" \o IntToStr(now) \o "." \o Lower(image_format)

\* the request at its first step; delete_page_image_version starts with
\* filepath = self.upload_folder / image_path.replace('\\', '/')
Start(op, args) ==
    [IdleProc EXCEPT !.op = op, !.args = args,
                     !.pc = IF op = "delete_page_image_version" THEN "exists" ELSE "mkdir_project",
                     !.path = IF op = "delete_page_image_version"
                              THEN PathJoin(UploadFolder, ReplaceBackslash(args[1]))
                              ELSE <<>>]

\* return ret
Finish(p, ret) == [p EXCEPT !.pc = "done", !.ret = ret]

\* the exception err leaves the method
Failed(p, err) == [p EXCEPT !.pc = "done", !.err = err]

\* one step: the requests become ps and the storage f, d; the files in
\* touched were written
Step(ps, f, d, touched) ==
    /\ procs' = ps
    /\ files' = f
    /\ dirs' = d
    /\ mtime' = [q \in DOMAIN f |->
                    IF q \in touched \/ q \notin DOMAIN mtime THEN clock ELSE mtime[q]]
    /\ UNCHANGED <<clock, last, prev, projects>>

\* project_dir.mkdir(exist_ok=True, parents=True) of _get_project_dir
MkdirProject(i) ==
    LET p == procs[i]
        r == _get_project_dir(Cur, ProjectOf(p))
    IN /\ p.pc = "mkdir_project"
       /\ IF r.err # "" THEN Step([procs EXCEPT ![i] = Failed(p, r.err)], files, dirs, {})
          ELSE Step([procs EXCEPT ![i] = [p EXCEPT !.pc = "mkdir_pages", !.path = r.path]],
                    r.st.files, r.st.dirs, {})

\* pages_dir.mkdir(exist_ok=True, parents=True) of _get_pages_dir, and the
\* local computation up to the next system call
MkdirPages(i) ==
    LET p == procs[i]
        r == SubDirOf([st |-> Cur, path |-> p.path, err |-> ""], "pages")
        filename == GeneratedFilename(p.args[3], p.args[4], p.args[5], clock)
    IN /\ p.pc = "mkdir_pages"
       /\ IF r.err # "" THEN Step([procs EXCEPT ![i] = Failed(p, r.err)], files, dirs, {})
          ELSE IF p.op = "save_generated_image"
          THEN Step([procs EXCEPT ![i] = [p EXCEPT !.pc = "open",
                                                   !.path = PathJoin(r.path, filename)]],
                    r.st.files, r.st.dirs, {})
          ELSE Step([procs EXCEPT ![i] = [p EXCEPT !.pc = "glob", !.path = r.path]],
                    r.st.files, r.st.dirs, {})

\* image.save(str(filepath)), first half: open(filename, "w+b") creates the
\* file or truncates the one that is there
OpenFile(i) ==
    LET p == procs[i]
        w == WriteFile(Cur, p.path, "")
    IN /\ p.pc = "open"
       /\ IF w.err # "" THEN Step([procs EXCEPT ![i] = Failed(p, w.err)], files, dirs, {})
          ELSE Step([procs EXCEPT ![i] = [p EXCEPT !.pc = "write", !.detached = FALSE]],
                    w.st.files, w.st.dirs, {Norm(p.path)})

\* what a file holding old holds after data was written at offset 0
WriteAt(old, data) == data \o SubSeq(old, Len(data) + 1, Len(old))

\* image.save(str(filepath)), second half: the encoded image is written at
\* the start of the open file and the path is returned; a file that was
\* unlinked since it was opened is written without a name.  wrote marks the
\* request that wrote last.
WriteImage(i) ==
    LET p == procs[i]
        q == Norm(p.path)
        j == 3 - i
        ps == [procs EXCEPT ![i] = [Finish(p, RelativeTo(p.path, UploadFolder))
                                        EXCEPT !.wrote = TRUE],
                            ![j] = [procs[j] EXCEPT !.wrote = FALSE]]
    IN /\ p.pc = "write"
       /\ IF p.detached \/ q \notin DOMAIN files THEN Step(ps, files, dirs, {})
          ELSE Step(ps, (q :> WriteAt(files[q], p.args[1])) @@ files, dirs, {q})

\* Path.unlink() of path by request i, which goes on as next: the file has
\* to be there still, and a writer that holds it open loses its name
UnlinkBy(i, path, next) ==
    LET p == procs[i]
        q == Norm(path)
        j == 3 - i
        o == procs[j]
    IN IF ~IsFile(Cur, path)
       THEN Step([procs EXCEPT ![i] = Failed(p, "FileNotFoundError")], files, dirs, {})
       ELSE Step([procs EXCEPT ![i] = next,
                               ![j] = IF o.pc = "write" /\ Norm(o.path) = q
                                      THEN [o EXCEPT !.detached = TRUE] ELSE o],
                 Without(files, {q}), dirs, {})

\* cache_filepath of delete_page_image_version
CacheFilepath(filepath) == PathJoin(Parent(filepath), Stem(Name(filepath)) \o "_thumb.jpg")

\* if filepath.exists() and filepath.is_file():
ExistsFile(i) ==
    LET p == procs[i]
    IN /\ p.pc = "exists"
       /\ IF PathExists(Cur, p.path) /\ IsFile(Cur, p.path)
          THEN Step([procs EXCEPT ![i] = [p EXCEPT !.pc = "unlink"]], files, dirs, {})
          ELSE Step([procs EXCEPT ![i] = [p EXCEPT !.pc = "exists_cache"]], files, dirs, {})

\* filepath.unlink(); deleted = True
UnlinkFile(i) ==
    LET p == procs[i]
    IN /\ p.pc = "unlink"
       /\ UnlinkBy(i, p.path, [p EXCEPT !.pc = "exists_cache", !.deleted = TRUE])

\* if cache_filepath.exists() and cache_filepath.is_file(): ... return deleted
ExistsCache(i) ==
    LET p == procs[i]
        cache_filepath == CacheFilepath(p.path)
    IN /\ p.pc = "exists_cache"
       /\ IF PathExists(Cur, cache_filepath) /\ IsFile(Cur, cache_filepath)
          THEN Step([procs EXCEPT ![i] = [p EXCEPT !.pc = "unlink_cache"]], files, dirs, {})
          ELSE Step([procs EXCEPT ![i] = Finish(p, p.deleted)], files, dirs, {})

\* cache_filepath.unlink(); return deleted
UnlinkCache(i) ==
    LET p == procs[i]
    IN /\ p.pc = "unlink_cache"
       /\ UnlinkBy(i, CacheFilepath(p.path), Finish(p, p.deleted))

\* as Matching, but every file of the directory is taken
Matching_any(st, d, page_id) == {Name(q) : q \in FilesIn(st, d)}

\* pages_dir.glob(f"{page_id}_*"): the directory is listed once, when the
\* loop starts
Matching(st, d, page_id) == GlobPage(st, d, page_id)

\* the loop of delete_page_image is left with return True
AfterFile(p, todo) ==
    IF todo = {} THEN [Finish(p, TRUE) EXCEPT !.todo = {}, !.file = ""]
    ELSE [p EXCEPT !.pc = "is_file", !.todo = todo, !.file = ""]

\* for file in pages_dir.glob(f"{page_id}_*"):
GlobFiles(i) ==
    LET p == procs[i]
    IN /\ p.pc = "glob"
       /\ Step([procs EXCEPT ![i] = AfterFile(p, Matching(Cur, Norm(p.path), p.args[2]))],
               files, dirs, {})

\* if file.is_file(): for the next file of the listing, in any order
IsFileNext(i) ==
    LET p == procs[i]
    IN /\ p.pc = "is_file"
       /\ \E name \in p.todo :
             IF IsFile(Cur, Append(p.path, name))
             THEN Step([procs EXCEPT ![i] = [p EXCEPT !.pc = "unlink_listed", !.file = name]],
                       files, dirs, {})
             ELSE Step([procs EXCEPT ![i] = AfterFile(p, p.todo \ {name})], files, dirs, {})

\* file.unlink()
UnlinkListed(i) ==
    LET p == procs[i]
    IN /\ p.pc = "unlink_listed"
       /\ UnlinkBy(i, Append(p.path, p.file), AfterFile(p, p.todo \ {p.file}))

\* no request is running
AllIdle == \A i \in Pids : procs[i].pc = "idle"

\* both requests are over
AllDone == \A i \in Pids : procs[i].pc = "done"

\* two requests c1 and c2, each a pair <<method, arguments>>, arrive together
Launch(c1, c2) ==
    /\ AllIdle
    /\ procs' = <<Start(c1[1], c1[2]), Start(c2[1], c2[2])>>
    /\ last' = [op |-> "launch", args |-> <<c1, c2>>, ret |-> None, err |-> "",
                now |-> clock, first_removed |-> 0 - 1]
    /\ prev' = Cur
    /\ UNCHANGED <<files, dirs, clock, mtime, projects>>

ConcImages == {"A", "BB"}

ConcPages == {"a", "b"}

\* the requests that are raced: pairs <<method, arguments>>
ConcCalls ==
    {<<"save_generated_image", <<image, "p1", page_id, "PNG", 1>>>> :
        image \in ConcImages, page_id \in ConcPages}
    \cup {<<"delete_page_image_version", <<"p1/pages/" \o page_id \o "_v1.png">>>> :
            page_id \in ConcPages}
    \cup {<<"delete_page_image", <<"p1", page_id>>>> : page_id \in ConcPages}

NextConc ==
    \/ \E page_id \in ConcPages :
          AllIdle /\ SaveGeneratedImage("A", "p1", page_id, "PNG", 1) /\ Within(MaxFiles)
    \/ \E page_id \in ConcPages :
          AllIdle /\ SaveCachedImage("A", "p1", page_id, 1) /\ Within(MaxFiles)
    \/ \E c1 \in ConcCalls : \E c2 \in ConcCalls : Launch(c1, c2)
    \/ \E i \in Pids : MkdirProject(i)
    \/ \E i \in Pids : MkdirPages(i)
    \/ \E i \in Pids : OpenFile(i)
    \/ \E i \in Pids : WriteImage(i)
    \/ \E i \in Pids : ExistsFile(i)
    \/ \E i \in Pids : UnlinkFile(i)
    \/ \E i \in Pids : ExistsCache(i)
    \/ \E i \in Pids : UnlinkCache(i)
    \/ \E i \in Pids : GlobFiles(i)
    \/ \E i \in Pids : IsFileNext(i)
    \/ \E i \in Pids : UnlinkListed(i)

SpecConc == Init /\ [][NextConc]_vars

(***************************************************************************)
(* Claims about concurrent requests                                        *)
(***************************************************************************)
\* the two requests launched last have run to their end
Raced == last.op = "launch" /\ AllDone

\* the method called by request c with its arguments, run in one piece on st
RunAlone(st, c) ==
    IF c[1] = "save_generated_image"
    THEN save_generated_image(st, c[2][1], c[2][2], c[2][3], c[2][4], c[2][5], last.now)
    ELSE IF c[1] = "delete_page_image_version" THEN delete_page_image_version(st, c[2][1])
    ELSE delete_page_image(st, c[2][1], c[2][2])

\* the first request run in one piece on the storage of the launch
RunFirst == RunAlone(prev, last.args[1])

\* the second request run in one piece after the first
RunSecond == RunAlone(Storage(RunFirst.files, RunFirst.dirs), last.args[2])

\* the files request c names in its arguments
NamedBy(c) ==
    IF c[1] = "save_generated_image"
    THEN {Norm(PathJoin(PathJoin(PathJoin(UploadFolder, c[2][2]), "pages"),
                        GeneratedFilename(c[2][3], c[2][4], c[2][5], last.now)))}
    ELSE IF c[1] = "delete_page_image_version"
    THEN {Norm(PathJoin(UploadFolder, ReplaceBackslash(c[2][1]))),
          Norm(CacheFilepath(PathJoin(UploadFolder, ReplaceBackslash(c[2][1]))))}
    ELSE {}

\* request c writes or removes the file q when q is there
Targets(c, q) ==
    IF c[1] = "delete_page_image"
    THEN /\ Parent(q) = Norm(PathJoin(PathJoin(UploadFolder, c[2][1]), "pages"))
         /\ StartsWith(Name(q), c[2][2] \o "_")
    ELSE q \in NamedBy(c)

\* no file, present at the launch or named by a request, is a target of both
DifferentFilenames ==
    \A q \in (DOMAIN prev.files) \cup NamedBy(last.args[1]) \cup NamedBy(last.args[2]) :
        ~(Targets(last.args[1], q) /\ Targets(last.args[2], q))

\* C13: two requests that ran concurrently on different filenames have both
\* returned without an exception, each with the value it returns when run
\* alone, and the files and directories are those left by running the first
\* and then the second in one piece, whatever the order of their steps was
C13_DifferentFilenamesNeverInterfere ==
    (Raced /\ DifferentFilenames) =>
        /\ \A i \in Pids : procs[i].err = ""
        /\ RunFirst.err = "" /\ RunSecond.err = ""
        /\ procs[1].ret = RunFirst.ret
        /\ procs[2].ret = RunSecond.ret
        /\ files = RunSecond.files
        /\ dirs = RunSecond.dirs

\* a save and a delete_page_image of another page have raced in a directory
\* that held files of both pages, and the storage has changed
C13_Witness ==
    /\ Raced /\ DifferentFilenames
    /\ last.args[1][1] = "save_generated_image"
    /\ last.args[2][1] = "delete_page_image"
    /\ \E q \in DOMAIN prev.files : Targets(last.args[2], q)
    /\ \E q \in DOMAIN prev.files : ~Targets(last.args[2], q)
    /\ \E q \in DOMAIN files : q \notin DOMAIN prev.files
    /\ \E q \in DOMAIN prev.files : q \notin DOMAIN files

\* both requests are reapers and the first is delete_page_image_version of a
\* file that was there at the launch, which the second removes too
ReapersOfOneFile ==
    /\ last.op = "launch"
    /\ last.args[1][1] = "delete_page_image_version"
    /\ last.args[2][1] \in {"delete_page_image_version", "delete_page_image"}
    /\ \E q \in NamedBy(last.args[1]) \cap DOMAIN prev.files : Targets(last.args[2], q)

\* C14: when two reapers of one file have run concurrently, one of them a
\* delete_page_image_version, neither has raised and the file and its
\* thumbnail are gone
C14_ConcurrentReapersNeverFail ==
    (Raced /\ ReapersOfOneFile) =>
        /\ \A i \in Pids : procs[i].err = ""
        /\ NamedBy(last.args[1]) \cap DOMAIN files = {}

\* both requests are save_generated_image of one path
SaversOfOneFile ==
    /\ last.op = "launch"
    /\ last.args[1][1] = "save_generated_image"
    /\ last.args[2][1] = "save_generated_image"
    /\ NamedBy(last.args[1]) = NamedBy(last.args[2])

\* C20: when two save_generated_image requests for one path have run
\* concurrently, neither has raised, the path holds a file, and its content
\* is the image of the request that wrote last
C20_LastWriteWins ==
    (Raced /\ SaversOfOneFile) =>
        /\ \A i \in Pids : procs[i].err = ""
        /\ \A q \in NamedBy(last.args[1]) : q \in DOMAIN files
        /\ \A i \in Pids : \A q \in NamedBy(last.args[1]) :
              procs[i].wrote => files[q] = procs[i].args[1]

(***************************************************************************)
(* Color normalization.  An image is a record [id, mode, px, palette] of    *)
(* one pixel: px holds the bands of the pixel (for mode P the index into   *)
(* palette, whose entries are <<r, g, b, a>>), id tells image objects      *)
(* apart: 0 is an object made by the call.                                 *)
(***************************************************************************)
NewImage(mode, px) == [id |-> 0, mode |-> mode, px |-> px, palette |-> <<>>]

\* Image.new('RGB', image.size, (255, 255, 255))
WhiteBackground == NewImage("RGB", <<255, 255, 255>>)

\* DIV255 of Pillow: x / 255 rounded to the nearest integer
Div255(x) == (((x + 128) \div 256) + (x + 128)) \div 256

\* BLEND8 of Pillow's paste: in1 where the mask is 0, in2 where it is 255
Blend8(mask, in1, in2) == Div255(in1 * (255 - mask) + in2 * mask)

\* the three colour bands Pillow keeps for the pixel: an L or LA pixel is
\* stored as (l, l, l, a)
ColourBands(image) ==
    IF image.mode \in {"RGB", "RGBA"} THEN SubSeq(image.px, 1, 3)
    ELSE <<image.px[1], image.px[1], image.px[1]>>

\* image.convert(mode), for the conversions the function asks for
ImageConvert(image, mode) ==
    IF image.mode = "P" /\ mode = "RGBA" THEN NewImage("RGBA", image.palette[image.px[1]])
    ELSE IF image.mode = "P" THEN NewImage(mode, SubSeq(image.palette[image.px[1]], 1, 3))
    ELSE NewImage(mode, ColourBands(image))

\* image.split()[-1]: the value of the last band
LastBand(image) == image.px[Len(image.px)]

\* background.paste(image, mask=...) on an RGB background
PasteMasked(background, image, mask) ==
    [background EXCEPT !.px = [k \in 1..3 |-> Blend8(mask, background.px[k], ColourBands(image)[k])]]

\* background.paste(image)
Paste(background, image) == [background EXCEPT !.px = ColourBands(image)]

\* as convert_image_to_rgb, but the image is pasted without its mask
convert_image_to_rgb_unmasked(image) ==
    IF image.mode \in {"RGBA", "LA", "P"}
    THEN LET expanded == IF image.mode = "P" THEN ImageConvert(image, "RGBA") ELSE image
         IN Paste(WhiteBackground, expanded)
    ELSE IF image.mode # "RGB" THEN ImageConvert(image, "RGB")
    ELSE image

convert_image_to_rgb(image) ==
    IF image.mode \in {"RGBA", "LA", "P"}
    THEN LET expanded == IF image.mode = "P" THEN ImageConvert(image, "RGBA") ELSE image
         IN IF expanded.mode \in {"RGBA", "LA"}
            THEN PasteMasked(WhiteBackground, expanded, LastBand(expanded))
            ELSE Paste(WhiteBackground, expanded)
    ELSE IF image.mode # "RGB" THEN ImageConvert(image, "RGB")
    ELSE image

ConvertImageToRgb(image) ==
    Call("convert_image_to_rgb", <<image>>, Result(Cur, convert_image_to_rgb(image), ""))

(***************************************************************************)
(* SpecConvert: convert_image_to_rgb on one-pixel images of every mode      *)
(***************************************************************************)
\* values of a colour band and of an alpha band
Levels == {0, 100, 255}

Alphas == {0, 128, 255}

\* the palette of the P images: an opaque, a half and a fully transparent entry
Palette == <<<<100, 0, 255, 255>>, <<0, 255, 100, 128>>, <<255, 100, 0, 0>>>>

ConvertImages ==
    {[id |-> 1, mode |-> "RGBA", px |-> <<r, g, b, a>>, palette |-> <<>>] :
        r \in Levels, g \in Levels, b \in Levels, a \in Alphas}
    \cup {[id |-> 1, mode |-> "RGB", px |-> <<r, g, b>>, palette |-> <<>>] :
            r \in Levels, g \in Levels, b \in Levels}
    \cup {[id |-> 1, mode |-> "LA", px |-> <<l, a>>, palette |-> <<>>] :
            l \in Levels, a \in Alphas}
    \cup {[id |-> 1, mode |-> "P", px |-> <<i>>, palette |-> Palette] : i \in 1..Len(Palette)}
    \cup {[id |-> 1, mode |-> "L", px |-> <<l>>, palette |-> <<>>] : l \in Levels}
    \cup {[id |-> 1, mode |-> "1", px |-> <<l>>, palette |-> <<>>] : l \in {0, 255}}

NextConvert == \E image \in ConvertImages : ConvertImageToRgb(image)

SpecConvert == Init /\ [][NextConvert]_vars

\* the colour and the alpha of the pixel as a viewer sees them: the palette
\* entry for P, the grey value three times for L, LA and 1, alpha 255 for a
\* mode without alpha
SeenColour(image) ==
    IF image.mode = "P" THEN SubSeq(image.palette[image.px[1]], 1, 3)
    ELSE IF image.mode \in {"RGB", "RGBA"} THEN SubSeq(image.px, 1, 3)
    ELSE <<image.px[1], image.px[1], image.px[1]>>

SeenAlpha(image) ==
    IF image.mode = "P" THEN image.palette[image.px[1]][4]
    ELSE IF image.mode \in {"RGBA", "LA"} THEN image.px[Len(image.px)]
    ELSE 255

\* band out of the result lies between the band of the image and white, at
\* the image's band for alpha 255, at white for alpha 0, and nearer to white
\* than to the image only if alpha is below the middle
Composited(out, band, alpha) ==
    /\ band <= out /\ out <= 255
    /\ alpha = 255 => out = band
    /\ alpha = 0 => out = 255
    /\ 2 * 255 * (out - band) <= 2 * (255 - band) * (255 - alpha) + 255
    /\ 2 * 255 * (out - band) >= 2 * (255 - band) * (255 - alpha) - 255

DerivedImages == {"A", "B"}

DerivedPages == {"a", "b"}

\* where save_generated_image stores the PNG of the version
PrimaryPath(project_id, page_id, version_number) ==
    Norm(PathJoin(PathJoin(PathJoin(UploadFolder, project_id), "pages"),
                  GeneratedFilename(page_id, "PNG", version_number, clock)))

NextDerived ==
    \/ \E image \in DerivedImages, page_id \in DerivedPages, version_number \in 1..MaxVersion :
          SaveGeneratedImage(image, "p1", page_id, "PNG", version_number) /\ Within(MaxFiles)
    \/ \E page_id \in DerivedPages, version_number \in 1..MaxVersion :
          /\ PrimaryPath("p1", page_id, version_number) \in DOMAIN files
          /\ SaveCachedImage(files[PrimaryPath("p1", page_id, version_number)],
                             "p1", page_id, version_number)
          /\ Within(MaxFiles)
    \/ \E image_path \in KnownPaths : DeletePageImageVersion(image_path)
    \/ \E page_id \in DerivedPages : DeletePageImage("p1", page_id)
    \/ DeleteProjectFiles("p1")

SpecDerived == Init /\ [][NextDerived]_vars

\* the stored files that are thumbnails of page images
Thumbnails == {q \in DOMAIN files : EndsWith(Name(q), "_thumb.jpg")}

\* the stored files the thumbnail q shadows: same directory, the name of q
\* is their stem followed by _thumb.jpg
ShadowedBy(q) ==
    {f \in FilesIn(Cur, Parent(q)) : f # q /\ Stem(Name(f)) \o "_thumb.jpg" = Name(q)}

\* C22: every stored thumbnail shadows a stored page image of the same stem
\* and holds the thumbnail of the content that image holds now
C22_ThumbnailsAreDerived ==
    \A q \in Thumbnails :
        \E f \in ShadowedBy(q) : files[q] = ThumbnailOf(files[f])

(***************************************************************************)
(* SpecIdentity: the templates of one project saved under every identity:  *)
(* without key, with a key, as a variant, as a variant of a key            *)
(***************************************************************************)
save_template_variant_upload(st, file, project_id, variant_key, template_key, with_timestamp, now) ==
    LET ext    == UploadExt(file.filename)
        suffix == IF with_timestamp THEN "_" \o IntToStr(now) ELSE ""
        filename ==
            IF template_key # None /\ template_key # ""
            THEN "template_" \o SafeKey(template_key) \o "_" \o variant_key \o suffix \o "." \o ext
            ELSE "template_" \o variant_key \o suffix \o "." \o ext
    IN SaveInto(_get_template_dir(st, project_id), filename, file.content)

SaveTemplateVariantUpload(file, project_id, variant_key, template_key, with_timestamp) ==
    Call("save_template_variant_upload",
         <<file, project_id, variant_key, template_key, with_timestamp>>,
         save_template_variant_upload(Cur, file, project_id, variant_key, template_key,
                                      with_timestamp, clock))

IdentityKeys == {"k", "cover", "k_cover"}

IdentityVariants == {"cover", "content"}

IdentityUploads == {[filename |-> "t.png", content |-> "U"]}

NextIdentity ==
    \/ \E file \in IdentityUploads : SaveTemplateImage(file, "p1") /\ Within(MaxWritten)
    \/ \E file \in IdentityUploads, template_key \in IdentityKeys :
          SaveTemplateImageWithKey(file, "p1", template_key) /\ Within(MaxWritten)
    \/ \E variant_key \in IdentityVariants, template_key \in IdentityKeys \cup {None} :
          /\ SaveTemplateVariantImage("A", "p1", variant_key, "PNG", template_key, FALSE)
          /\ Within(MaxWritten)
    \/ \E file \in IdentityUploads, variant_key \in IdentityVariants,
          template_key \in IdentityKeys \cup {None} :
          /\ SaveTemplateVariantUpload(file, "p1", variant_key, template_key, FALSE)
          /\ Within(MaxWritten)
    \/ DeleteTemplate("p1")

SpecIdentity == Init /\ [][NextIdentity]_vars

\* the template saves of the specification as pairs <<method, arguments>>
TemplateSaves ==
    {<<"save_template_image", <<file, "p1">>>> : file \in IdentityUploads}
    \cup {<<"save_template_image_with_key", <<file, "p1", template_key>>>> :
            file \in IdentityUploads, template_key \in IdentityKeys}
    \cup {<<"save_template_variant_image", <<"A", "p1", variant_key, "PNG", template_key, FALSE>>>> :
            variant_key \in IdentityVariants, template_key \in IdentityKeys \cup {None}}
    \cup {<<"save_template_variant_upload", <<file, "p1", variant_key, template_key, FALSE>>>> :
            file \in IdentityUploads, variant_key \in IdentityVariants,
            template_key \in IdentityKeys \cup {None}}

\* the identity of the template a save is for: <<key, variant>>, None for
\* a part that is not given
IdentityOf(c) ==
    IF c[1] = "save_template_image" THEN <<None, None>>
    ELSE IF c[1] = "save_template_image_with_key" THEN <<c[2][3], None>>
    ELSE IF c[1] = "save_template_variant_image" THEN <<c[2][5], c[2][3]>>
    ELSE <<c[2][4], c[2][3]>>

\* the save c made on the storage st
RunTemplateSave(st, c) ==
    IF c[1] = "save_template_image" THEN save_template_image(st, c[2][1], c[2][2])
    ELSE IF c[1] = "save_template_image_with_key"
    THEN save_template_image_with_key(st, c[2][1], c[2][2], c[2][3])
    ELSE IF c[1] = "save_template_variant_image"
    THEN save_template_variant_image(st, c[2][1], c[2][2], c[2][3], c[2][4], c[2][5], c[2][6], last.now)
    ELSE save_template_variant_upload(st, c[2][1], c[2][2], c[2][3], c[2][4], c[2][5], last.now)

\* C23: the file a template save has written is not the file that a save
\* for another identity (other key, other variant, or one of them given and
\* not the other) writes in the same project with the same extension
C23_TemplateNamesTellIdentitiesApart ==
    (<<last.op, last.args>> \in TemplateSaves /\ last.err = "") =>
        \A c \in TemplateSaves :
            IdentityOf(c) # IdentityOf(<<last.op, last.args>>)
                => RunTemplateSave(prev, c).ret # last.ret

(***************************************************************************)
(* SpecScope: files of two projects, of the global materials and of a user  *)
(* template, and the reapers called for every project id, the ids that are  *)
(* names of the shared directories included                                 *)
(***************************************************************************)
OwnedProjects == {"p1", "p2"}

\* the project ids the reapers are called for
ScopeProjects == {"p1", "materials", "user-templates"}

ScopeUploads == {[filename |-> "t.png", content |-> "U"]}

ScopeTemplateIds == {"template"}

NextScope ==
    \/ \E project_id \in OwnedProjects :
          SaveGeneratedImage("A", project_id, "a", "PNG", 1) /\ Within(MaxFiles)
    \/ SaveMaterialImage("A", None, "PNG") /\ Within(MaxFiles)
    \/ \E file \in ScopeUploads, template_id \in ScopeTemplateIds :
          SaveUserTemplate(file, template_id) /\ Within(MaxFiles)
    \/ \E project_id \in ScopeProjects : DeleteProjectFiles(project_id)
    \/ \E project_id \in ScopeProjects : DeleteTemplate(project_id)
    \/ \E project_id \in ScopeProjects : DeletePageImage(project_id, "a")

SpecScope == Init /\ [][NextScope]_vars

\* the operations that are addressed to a project by their first argument
ProjectReapers == {"delete_project_files", "delete_template", "delete_page_image"}

\* the files below root/materials/, below root/user-templates/ and below
\* the directory of a project other than project_id
ForeignTo(project_id, q) ==
    \/ Under(q, Norm(Append(UploadFolder, "materials")))
    \/ Under(q, Norm(Append(UploadFolder, "user-templates")))
    \/ \E other \in OwnedProjects \ {project_id} : Under(q, Norm(Append(UploadFolder, other)))

\* the file q is as it was before the last call
Untouched(q) ==
    /\ q \in DOMAIN files <=> q \in DOMAIN prev.files
    /\ q \in DOMAIN files => files[q] = prev.files[q]

\* C24: a reaper called for a project leaves every file of the global
\* materials, of the user templates and of the other projects as it was,
\* whatever the project id is
C24_ProjectCallsStayInTheirScope ==
    last.op \in ProjectReapers =>
        \A q \in (DOMAIN files) \cup (DOMAIN prev.files) :
            ForeignTo(last.args[1], q) => Untouched(q)

(***************************************************************************)
(* Migration 013.  projects is the table of that name: a function from the  *)
(* id of a row to the record of its columns, None for SQL NULL.  The JSON   *)
(* texts are the ones of VariantTexts; an object is kept as the sequence of *)
(* its <<key, value>> pairs.                                                *)
(***************************************************************************)
\* bool(x) of Python is False for a column value x: NULL or the empty string
Falsy(x) == x = None \/ x = ""

\* json.loads(text): the parsed value with its Python type, or the exception
JsonLoads(text) ==
    IF text = "{}" THEN [err |-> "", type |-> "dict", value |-> <<>>]
    ELSE IF text = "{\"cover\":\"c.png\"}"
    THEN [err |-> "", type |-> "dict", value |-> <<<<"cover", "c.png">>>>]
    ELSE IF text = "[\"cover\"]" THEN [err |-> "", type |-> "list", value |-> <<"cover">>]
    ELSE [err |-> "JSONDecodeError", type |-> "", value |-> <<>>]

\* json.dumps of a string or None
JsonDumpsScalar(x) == IF x = None THEN "null" ELSE "\"" \o x \o "\""

\* json.dumps of a dict of strings, with the default separators
JsonDumpsDict(pairs) ==
    "{" \o Join([k \in 1..Len(pairs) |->
                    JsonDumpsScalar(pairs[k][1]) \o ": " \o JsonDumpsScalar(pairs[k][2])], ", ")
        \o "}"

\* template_variants of the loop: the parsed column when it is a JSON
\* object, {} when the column is empty, does not parse or is something else
ParsedVariants(row) ==
    IF Falsy(row.template_variants) THEN <<>>
    ELSE LET parsed == JsonLoads(row.template_variants)
         IN IF parsed.err = "" /\ parsed.type = "dict" THEN parsed.value ELSE <<>>

\* as HasAnyTemplate, but the variants are not looked at
HasAnyTemplate_path_only(row) == ~Falsy(row.template_image_path)

\* has_any_template = bool(row.template_image_path) or bool(template_variants)
HasAnyTemplate(row) == ~Falsy(row.template_image_path) \/ ParsedVariants(row) # <<>>

\* json.dumps(template_sets, ensure_ascii=False) for
\* template_sets = {'legacy': {"template_image_path": ..., "template_variants": ...}}
LegacyTemplateSets(row) ==
    "{\"legacy\": {\"template_image_path\": " \o JsonDumpsScalar(row.template_image_path)
        \o ", \"template_variants\": " \o JsonDumpsDict(ParsedVariants(row)) \o "}}"

\* one turn of the loop over the fetched rows: the row as the loop leaves it
BackfillRow(row) ==
    IF ~Falsy(row.template_sets) THEN row
    ELSE IF ~HasAnyTemplate(row) THEN row
    ELSE [row EXCEPT !.template_sets = LegacyTemplateSets(row),
                     !.active_template_key = "legacy"]

\* the backfill of upgrade(): the rows are fetched, then each is updated by
\* its id
Backfill ==
    /\ projects' = [id \in DOMAIN projects |-> BackfillRow(projects[id])]
    /\ last' = [op |-> "upgrade", args |-> <<projects>>, ret |-> None, err |-> "",
                now |-> clock, first_removed |-> 0 - 1]
    /\ UNCHANGED <<files, dirs, clock, prev, mtime, procs>>

(***************************************************************************)
(* SpecMigrate: the backfill run, and run again, on every table of two     *)
(* rows, as upgrade() finds them after the two columns were added           *)
(***************************************************************************)
MigratedIds == {"p1", "p2"}

PathTexts == {None, "", "p1/template/template.png"}

VariantTexts == {None, "", "{}", "{\"cover\":\"c.png\"}", "[\"cover\"]", "{cover"}

\* the rows before the backfill: op.add_column has made both columns NULL
AddedColumnRows ==
    {[template_image_path |-> path, template_variants |-> variants,
      template_sets |-> None, active_template_key |-> None] :
        path \in PathTexts, variants \in VariantTexts}

InitMigrate ==
    /\ files = <<>>
    /\ dirs = Prefixes(UploadFolder)
    /\ clock = 1
    /\ last = [op |-> "init", args |-> <<>>, ret |-> None, err |-> "", now |-> 1, first_removed |-> 0 - 1]
    /\ prev = Storage(<<>>, Prefixes(UploadFolder))
    /\ mtime = <<>>
    /\ procs = <<IdleProc, IdleProc>>
    /\ projects \in [MigratedIds -> AddedColumnRows]

NextMigrate == Backfill

SpecMigrate == InitMigrate /\ [][NextMigrate]_vars

\* the column holds a JSON object with at least one key
IsNonEmptyObject(text) ==
    /\ ~Falsy(text)
    /\ JsonLoads(text).err = "" /\ JsonLoads(text).type = "dict" /\ JsonLoads(text).value # <<>>

\* the legacy entry for a path and the pairs of the variants, as JSON text
LegacyEntry(path, pairs) ==
    "{\"legacy\": {\"template_image_path\": " \o JsonDumpsScalar(path)
        \o ", \"template_variants\": " \o JsonDumpsDict(pairs) \o "}}"

\* what the claim says the backfill makes of the row before
RowIsBackfilled(before, after) ==
    IF ~Falsy(before.template_sets) THEN after = before
    ELSE IF ~Falsy(before.template_image_path) \/ IsNonEmptyObject(before.template_variants)
    THEN /\ after.template_sets =
                LegacyEntry(before.template_image_path,
                            IF IsNonEmptyObject(before.template_variants)
                            THEN JsonLoads(before.template_variants).value ELSE <<>>)
         /\ after.active_template_key = "legacy"
         /\ after.template_image_path = before.template_image_path
         /\ after.template_variants = before.template_variants
    ELSE after = before /\ after.template_sets = None /\ after.active_template_key = None

\* C25: after the backfill every row with template_sets set before is as
\* it was, every other row with a template path or variants that parse to a
\* non-empty object has the one legacy entry and the active key legacy,
\* every remaining row is as it was with both columns NULL, and the loop
\* run once more changes no row
C25_BackfillAddsLegacySet ==
    last.op = "upgrade" =>
        /\ DOMAIN projects = DOMAIN last.args[1]
        /\ \A id \in DOMAIN projects : RowIsBackfilled(last.args[1][id], projects[id])
        /\ \A id \in DOMAIN projects : BackfillRow(projects[id]) = projects[id]

\* the loop has run a second time on a table with a row it had given the
\* legacy entry from variants alone and a row of unparseable variants it had
\* left NULL
C25_Witness ==
    /\ last.op = "upgrade"
    /\ \E id \in DOMAIN projects :
          /\ last.args[1][id].template_sets =
                "{\"legacy\": {\"template_image_path\": null, \"template_variants\": {\"cover\": \"c.png\"}}}"
          /\ projects[id] = last.args[1][id]
    /\ \E id \in DOMAIN projects :
          /\ projects[id].template_variants = "{cover"
          /\ projects[id].template_sets = None

====
